---- MODULE Spec2Model ----
(***************************************************************************)
(* Model of raycast-store-updates: the Change Classifier                   *)
(* (convertPRsToStoreItems, src/src/utils/index.ts) and the Refresh Gate   *)
(* (useGitHubRateLimit, same file) as driven by the command                *)
(* (src/unnamed/part_001).                                                 *)
(*                                                                         *)
(* Four specifications share the variables:                                *)
(*   SpecConv    one pass of convertPRsToStoreItems, every await a step    *)
(*   SpecGate    the refresh gate, its storage, the clock and the sessions *)
(*   SpecPure    one call of a pure function of utils/index.ts             *)
(*   SpecEffect  one run of the command's new-items effect                 *)
(***************************************************************************)
EXTENDS Integers, Sequences, FiniteSets, TLC

\* ------------------------------------------------------------------ bounds

\* Longest PR list handed to one pass.
MaxPRs == 2
\* Longest changed-file list a files response carries.
MaxFiles == 3
\* Clock advances in one run of the gate.
MaxTicks == 2
\* Restarts of the command in one run of the gate.
MaxRestarts == 1
\* Longest label list of a PR.
MaxLabels == 2
\* Most lines of a changelog.
MaxLines == 5
\* Most entries of a feed.
MaxEntries == 2
\* Most LocalStorage writes of the filter toggles in flight at once.
MaxPending == 2
\* Most items in the list the changelog views are opened on.
MaxItems == 4
\* Most passes of the PR-items effect in flight at once.
MaxPasses == 2

\* ------------------------------------------------------------- value sets

\* Extension slugs that occur in the inputs.
Slugs == {"a", "b"}
\* JS null / undefined / "" for a slug: all falsy in `if (slug)`.
NoSlug == ""
\* Timestamps (merged_at, feed date) by their Date.getTime() value; NoDate is
\* a null merged_at or a slug missing from newItemDates (both falsy).
Dates == {1, 2}
NoDate == 0
\* Merge dates of the removal candidates (the pass only copies them into the
\* Removed items).
RemovalDates == {2}

\* A GitHubPR as the pass reads it: number is its place in the input list,
\* removal is isRemovalPR(pr), parsed is parseExtensionSlugFromPR(pr).
PRKinds ==
    [merged_at : {NoDate}, removal : {FALSE}, parsed : {NoSlug}]
        \cup [merged_at : Dates, removal : {FALSE}, parsed : Slugs \cup {NoSlug}]
        \cup [merged_at : RemovalDates, removal : {TRUE}, parsed : {NoSlug}]

\* Changed-file names, split at "/".
FileNames ==
    { <<"extensions", "a", "package.json">>,
      <<"extensions", "b", "package.json">>,
      <<"extensions", "a">>,
      <<"docs", "a", "README.md">> }
FileStatuses == {"removed", "modified"}
GitHubPRFile == [filename : FileNames, status : FileStatuses]

RECURSIVE SeqsUpTo(_, _)
SeqsUpTo(S, n) ==
    IF n = 0 THEN {<<>>}
    ELSE LET shorter == SeqsUpTo(S, n - 1)
         IN shorter \cup {Append(q, x) : q \in {r \in shorter : Len(r) = n - 1}, x \in S}

\* What the files endpoint answers: a 200 with a file list, or a failure
\* (non-ok status, transport error, unparsable body).
FilesResponses ==
    [status : {"200"}, files : SeqsUpTo(GitHubPRFile, MaxFiles)]
        \cup [status : {"403", "neterr", "badjson"}, files : {<<>>}]

\* What the package.json endpoint answers.
PkgResponses == {"200", "404", "500", "neterr", "badjson"}

Range(q) == {q[i] : i \in 1..Len(q)}

\* -------------------------------------------------------------- variables

VARIABLES
    \* convertPRsToStoreItems: arguments
    prs, newItemDates,
    \* convertPRsToStoreItems: locals
    pc, seen, updateCandidates, removalCandidatePRs, needsFileFallback,
    slugResults, pkgInfos, removedSeen, rtask,
    \* convertPRsToStoreItems: resolved value
    result,
    \* Date.now() and the number of clock advances so far
    now, ticks,
    \* LocalStorage (kept across restarts) and the current session
    storage, session,
    \* the hook's in-memory RateLimitState and whether its mount effect has run
    state, stateLoaded,
    \* the command's PR request: "idle" or "inflight"
    prsFetch,
    \* the command's feed request, and its isRefreshing flag
    feedFetch, isRefreshing,
    \* manual refreshes that passed the gate and whose PR response has not been
    \* recorded yet: 0, 1, or 2 for two or more (kept for the properties only)
    manualInFlight,
    \* the last call of the gate, and the RefreshState as numbers as last
    \* written (both kept for the properties only)
    last, wrote,
    \* a call of one of the pure functions: its name and arguments, whether it
    \* has returned, and what it returned
    input, called, output,
    \* the command's new-items effect: the feed it runs on, the lookup of each
    \* entry, its position, and the state it sets
    feedData, feedPkgInfos, effectPc, newItems,
    \* useFilterToggles: the in-memory toggles, whether the mount effect has
    \* loaded, the blob in LocalStorage, the setItem calls not yet landed, and
    \* the last toggle action with the state it found (for the properties only)
    toggles, loaded, filterBlob, persists, lastToggle,
    \* the navigation stack above the list (the currentIndex of each pushed
    \* ChangelogDetail), the items it was opened on (for each whether it has
    \* an extensionSlug), and the last navigation action (for the properties)
    navItems, navStack, lastNav,
    \* the command's PR data (undefined, or the PR list in a one-element
    \* tuple), the passes started and not yet settled, and the Updated and
    \* Removed sets shown
    prsData, passes, updatedItems, removedItems

convVars ==
    <<prs, newItemDates, pc, seen, updateCandidates, removalCandidatePRs,
      needsFileFallback, slugResults, pkgInfos, removedSeen, rtask, result>>

gateVars ==
    <<now, ticks, storage, session, state, stateLoaded, prsFetch, feedFetch,
      isRefreshing, manualInFlight, last, wrote>>

pureVars == <<input, called, output>>

effectVars == <<feedData, feedPkgInfos, effectPc, newItems>>

toggleVars == <<toggles, loaded, filterBlob, persists, lastToggle>>

navVars == <<navItems, navStack, lastNav>>

displayVars == <<prsData, passes, updatedItems, removedItems>>

uiVars == <<toggleVars, navVars, displayVars>>

\* What neither the pass nor the gate touches.
restVars == <<pureVars, effectVars, uiVars>>

vars == <<convVars, gateVars, restVars>>

\* ------------------------------------------------------ slug from PR files

\* file.filename.match(/^extensions\/([^/]+)\//): the captured slug, or NoSlug.
MatchSlug(filename) ==
    IF Len(filename) >= 3 /\ filename[1] = "extensions" /\ filename[2] # ""
    THEN filename[2]
    ELSE NoSlug

\* A JS Map: keys in insertion order, and the values.
EmptyMap == [keys |-> <<>>, val |-> [s \in {} |-> 0]]
MapHas(m, k) == k \in DOMAIN m.val
MapSet(m, k, v) ==
    [keys |-> IF MapHas(m, k) THEN m.keys ELSE Append(m.keys, k),
     val |-> [x \in DOMAIN m.val \cup {k} |-> IF x = k THEN v ELSE m.val[x]]]

\* The counting loop of fetchExtensionSlugFromPRFiles.
RECURSIVE CountSlugs(_, _, _)
CountSlugs(files, i, slugCounts) ==
    IF i > Len(files) THEN slugCounts
    ELSE LET slug == MatchSlug(files[i].filename)
         IN IF slug # NoSlug
            THEN CountSlugs(files, i + 1,
                     MapSet(slugCounts, slug,
                            (IF MapHas(slugCounts, slug) THEN slugCounts.val[slug] ELSE 0) + 1))
            ELSE CountSlugs(files, i + 1, slugCounts)

\* Mutant of BestSlug: a later slug with the same count replaces the best one.
RECURSIVE BestSlug_lastWins(_, _, _, _)
BestSlug_lastWins(slugCounts, i, bestSlug, bestCount) ==
    IF i > Len(slugCounts.keys) THEN bestSlug
    ELSE LET slug == slugCounts.keys[i]
             count == slugCounts.val[slug]
         IN IF count >= bestCount
            THEN BestSlug_lastWins(slugCounts, i + 1, slug, count)
            ELSE BestSlug_lastWins(slugCounts, i + 1, bestSlug, bestCount)

\* The best-slug loop of fetchExtensionSlugFromPRFiles.
RECURSIVE BestSlug(_, _, _, _)
BestSlug(slugCounts, i, bestSlug, bestCount) ==
    IF i > Len(slugCounts.keys) THEN bestSlug
    ELSE LET slug == slugCounts.keys[i]
             count == slugCounts.val[slug]
         IN IF count > bestCount
            THEN BestSlug(slugCounts, i + 1, slug, count)
            ELSE BestSlug(slugCounts, i + 1, bestSlug, bestCount)

fetchExtensionSlugFromPRFiles(response) ==
    IF response.status # "200" THEN NoSlug
    ELSE LET slugCounts == CountSlugs(response.files, 1, EmptyMap)
         IN IF Len(slugCounts.keys) = 0 THEN NoSlug
            ELSE BestSlug(slugCounts, 1, NoSlug, 0)

\* The grouping loop of fetchRemovedSlugsFromPR.
RECURSIVE GroupFiles(_, _, _)
GroupFiles(files, i, slugFiles) ==
    IF i > Len(files) THEN slugFiles
    ELSE LET slug == MatchSlug(files[i].filename)
         IN IF slug # NoSlug
            THEN GroupFiles(files, i + 1,
                     MapSet(slugFiles, slug,
                            Append(IF MapHas(slugFiles, slug) THEN slugFiles.val[slug] ELSE <<>>,
                                   files[i])))
            ELSE GroupFiles(files, i + 1, slugFiles)

\* Mutant of AllRemoved: some() in place of every().
AllRemoved_some(slugFileList) ==
    /\ Len(slugFileList) > 0
    /\ \E j \in 1..Len(slugFileList) : slugFileList[j].status = "removed"

\* slugFileList.length > 0 && slugFileList.every((f) => f.status === "removed")
AllRemoved(slugFileList) ==
    /\ Len(slugFileList) > 0
    /\ \A j \in 1..Len(slugFileList) : slugFileList[j].status = "removed"

RECURSIVE RemovedSlugs(_, _, _)
RemovedSlugs(slugFiles, i, removedSlugs) ==
    IF i > Len(slugFiles.keys) THEN removedSlugs
    ELSE LET slug == slugFiles.keys[i]
         IN IF AllRemoved(slugFiles.val[slug])
            THEN RemovedSlugs(slugFiles, i + 1, Append(removedSlugs, slug))
            ELSE RemovedSlugs(slugFiles, i + 1, removedSlugs)

fetchRemovedSlugsFromPR(response) ==
    IF response.status # "200" THEN <<>>
    ELSE RemovedSlugs(GroupFiles(response.files, 1, EmptyMap), 1, <<>>)

\* Mutant of fetchExtensionPackageInfo: only a 404 counts as "not found".
fetchExtensionPackageInfo_only404(response) ==
    IF response = "404" THEN "null" ELSE "found"

\* fetchExtensionPackageInfo: a descriptor on a 200 with a parsable body, null
\* on every other outcome.
fetchExtensionPackageInfo(response) ==
    IF response = "200" THEN "found" ELSE "null"

\* ------------------------------------------------------------ refresh gate

LAST_FETCH_KEY == "github-last-fetch-time"
RATE_LIMIT_RESET_KEY == "github-rate-limit-reset"
MIN_REFRESH_INTERVAL_MS == 5 * 60 * 1000

\* Date.now() when the first session starts, and the steps the clock advances by.
StartTime == 1000 * 1000
Ticks == {1, 10 * 1000, 5 * 60 * 1000, 60 * 60 * 1000}
\* X-RateLimit-Reset as the API sends it: epoch seconds, relative to the
\* second of the response (one in the past, two ahead).
ResetOffsets == {-1, 60, 60 * 60}

\* A JS number that is null or undefined.
Null == -1
\* if (n): neither null/undefined nor 0.
Truthy(n) == n # Null /\ n # 0

\* A decimal string is the sequence of its digits; a string that is undefined
\* (or empty: both falsy) is the empty sequence.
Undefined == <<>>

\* String(n), n >= 0.
RECURSIVE String(_)
String(n) == IF n < 10 THEN <<n>> ELSE Append(String(n \div 10), n % 10)

\* parseInt(str, 10) of a string of digits.
RECURSIVE ParseDigits(_, _, _)
ParseDigits(str, i, acc) ==
    IF i > Len(str) THEN acc ELSE ParseDigits(str, i + 1, acc * 10 + str[i])
parseInt(str) == ParseDigits(str, 1, 0)

\* Mutant of Ceil: the quotient is rounded down.
Ceil_floor(a, b) == a \div b

\* Math.ceil(a / b), b > 0.
Ceil(a, b) == -((-a) \div b)

\* A message is "Try again in {n} {unit}"; null is NoMessage.
NoMessage == [n |-> 0, unit |-> ""]

formatTimeRemaining(ms) ==
    LET totalSeconds == Ceil(ms, 1000)
        minutes == Ceil(totalSeconds, 60)
    IN IF totalSeconds < 60
       THEN [n |-> totalSeconds, unit |-> IF totalSeconds # 1 THEN "seconds" ELSE "second"]
       ELSE [n |-> minutes, unit |-> IF minutes # 1 THEN "minutes" ELSE "minute"]

\* Mutant of checkRefreshAllowed: a refresh exactly 5 minutes after the last
\* fetch is still refused.
checkRefreshAllowed_inclusive ==
    LET lastFetch == storage[LAST_FETCH_KEY]
        resetTime == storage[RATE_LIMIT_RESET_KEY]
        lastFetchTime == IF lastFetch # Undefined THEN parseInt(lastFetch) ELSE 0
        rateLimitResetTime == IF resetTime # Undefined THEN parseInt(resetTime) ELSE Null
        msSinceLastFetch == now - lastFetchTime
    IN IF Truthy(rateLimitResetTime) /\ now < rateLimitResetTime
       THEN formatTimeRemaining(rateLimitResetTime - now)
       ELSE IF lastFetchTime > 0 /\ msSinceLastFetch <= MIN_REFRESH_INTERVAL_MS
       THEN formatTimeRemaining(MIN_REFRESH_INTERVAL_MS - msSinceLastFetch)
       ELSE NoMessage

\* Mutant of checkRefreshAllowed: the decision is taken from the in-memory
\* state instead of LocalStorage.
checkRefreshAllowed_fromState ==
    LET lastFetchTime == state.lastFetchTime
        rateLimitResetTime == state.rateLimitResetTime
        msSinceLastFetch == now - lastFetchTime
    IN IF Truthy(rateLimitResetTime) /\ now < rateLimitResetTime
       THEN formatTimeRemaining(rateLimitResetTime - now)
       ELSE IF lastFetchTime > 0 /\ msSinceLastFetch < MIN_REFRESH_INTERVAL_MS
       THEN formatTimeRemaining(MIN_REFRESH_INTERVAL_MS - msSinceLastFetch)
       ELSE NoMessage

\* checkRefreshAllowed(): the message, or NoMessage when the refresh is allowed.
checkRefreshAllowed ==
    LET lastFetch == storage[LAST_FETCH_KEY]
        resetTime == storage[RATE_LIMIT_RESET_KEY]
        lastFetchTime == IF lastFetch # Undefined THEN parseInt(lastFetch) ELSE 0
        rateLimitResetTime == IF resetTime # Undefined THEN parseInt(resetTime) ELSE Null
        msSinceLastFetch == now - lastFetchTime
    IN IF Truthy(rateLimitResetTime) /\ now < rateLimitResetTime
       THEN formatTimeRemaining(rateLimitResetTime - now)
       ELSE IF lastFetchTime > 0 /\ msSinceLastFetch < MIN_REFRESH_INTERVAL_MS
       THEN formatTimeRemaining(MIN_REFRESH_INTERVAL_MS - msSinceLastFetch)
       ELSE NoMessage

\* Mutant of recordFetch: a stored reset time is left in place when the
\* response carries no hint.
recordFetch_keepsLimit(rateLimitResetEpochSeconds) ==
    IF Truthy(rateLimitResetEpochSeconds)
    THEN [storage EXCEPT ![LAST_FETCH_KEY] = String(now),
                         ![RATE_LIMIT_RESET_KEY] = String(rateLimitResetEpochSeconds * 1000)]
    ELSE [storage EXCEPT ![LAST_FETCH_KEY] = String(now)]

\* recordFetch(rateLimitResetEpochSeconds?): LocalStorage after the call.
recordFetch(rateLimitResetEpochSeconds) ==
    IF Truthy(rateLimitResetEpochSeconds)
    THEN [storage EXCEPT ![LAST_FETCH_KEY] = String(now),
                         ![RATE_LIMIT_RESET_KEY] = String(rateLimitResetEpochSeconds * 1000)]
    ELSE [storage EXCEPT ![LAST_FETCH_KEY] = String(now),
                         ![RATE_LIMIT_RESET_KEY] = Undefined]

\* Mutant of recordRateLimit: the rate-limited response is also recorded as a
\* fetch.
recordRateLimit_recordsFetch(resetEpochSeconds) ==
    LET resetMs == IF Truthy(resetEpochSeconds) THEN resetEpochSeconds * 1000
                   ELSE now + 60 * 60 * 1000
    IN [storage |-> [storage EXCEPT ![RATE_LIMIT_RESET_KEY] = String(resetMs),
                                    ![LAST_FETCH_KEY] = String(now)],
        message |-> formatTimeRemaining(resetMs - now)]

\* recordRateLimit(resetEpochSeconds?): LocalStorage after the call, and the
\* message returned.
recordRateLimit(resetEpochSeconds) ==
    LET resetMs == IF Truthy(resetEpochSeconds) THEN resetEpochSeconds * 1000
                   ELSE now + 60 * 60 * 1000
    IN [storage |-> [storage EXCEPT ![RATE_LIMIT_RESET_KEY] = String(resetMs)],
        message |-> formatTimeRemaining(resetMs - now)]

\* useState<RateLimitState>({ lastFetchTime: 0, rateLimitResetTime: null })
InitialState == [lastFetchTime |-> 0, rateLimitResetTime |-> Null]

\* An X-RateLimit-Reset header: absent, or the digits of an epoch second.
ResetHeaders ==
    {Undefined} \cup {String((now \div 1000) + off) : off \in ResetOffsets}

\* resetHeader ? parseInt(resetHeader, 10) : undefined
ResetEpoch(resetHeader) ==
    IF resetHeader # Undefined THEN parseInt(resetHeader) ELSE Null

NoCall == [op |-> "none", at |-> 0, hint |-> Null, ret |-> NoMessage,
           pre |-> [k \in {LAST_FETCH_KEY, RATE_LIMIT_RESET_KEY} |-> Undefined],
           session |-> 0]

InitGateVars ==
    /\ now = StartTime
    /\ ticks = 0
    /\ storage = [k \in {LAST_FETCH_KEY, RATE_LIMIT_RESET_KEY} |-> Undefined]
    /\ session = 0
    /\ state = InitialState
    /\ stateLoaded = FALSE
    /\ prsFetch = "inflight"
    /\ feedFetch = "inflight"
    /\ isRefreshing = FALSE
    /\ manualInFlight = 0
    /\ last = NoCall
    /\ wrote = [lastFetch |-> Null, reset |-> Null, resetBy |-> "none", session |-> 0]

\* No pass is running.
InitConvIdle ==
    /\ prs = <<>>
    /\ newItemDates = [s \in Slugs |-> NoDate]
    /\ pc = "idle"
    /\ seen = {}
    /\ updateCandidates = <<>>
    /\ removalCandidatePRs = <<>>
    /\ needsFileFallback = <<>>
    /\ slugResults = <<>>
    /\ pkgInfos = <<>>
    /\ removedSeen = {}
    /\ rtask = <<>>
    /\ result = [updated |-> <<>>, removed |-> <<>>]

\* No pure function is being called.
InitPureIdle ==
    /\ input = <<>>
    /\ called = FALSE
    /\ output = <<>>

\* The new-items effect is not running.
InitEffectIdle ==
    /\ feedData = <<>>
    /\ feedPkgInfos = <<>>
    /\ effectPc = "idle"
    /\ newItems = <<>>

\* useFilterToggles before its mount effect, nothing stored.
DEFAULT_TOGGLES == [showMacOS |-> TRUE, showWindows |-> TRUE]
NoToggle == [op |-> "none", prev |-> DEFAULT_TOGGLES]
InitTogglesIdle ==
    /\ toggles = DEFAULT_TOGGLES
    /\ loaded = FALSE
    /\ filterBlob = Undefined
    /\ persists = <<>>
    /\ lastToggle = NoToggle

\* The list is shown, no changelog is open.
NoNav == [action |-> "none", from |-> 0]
InitNavIdle ==
    /\ navItems = <<>>
    /\ navStack = <<>>
    /\ lastNav = NoNav

\* No PR data yet, nothing shown.
InitDisplayIdle ==
    /\ prsData = Undefined
    /\ passes = <<>>
    /\ updatedItems = <<>>
    /\ removedItems = <<>>

InitUiIdle == InitTogglesIdle /\ InitNavIdle /\ InitDisplayIdle

InitGate == InitGateVars /\ InitConvIdle /\ InitPureIdle /\ InitEffectIdle /\ InitUiIdle

\* Time passes.
Tick ==
    /\ ticks < MaxTicks
    /\ \E d \in Ticks : now' = now + d
    /\ ticks' = ticks + 1
    /\ UNCHANGED <<storage, session, state, stateLoaded, prsFetch, feedFetch,
                   isRefreshing, manualInFlight, last, wrote>>
    /\ UNCHANGED convVars
    /\ UNCHANGED restVars

\* The mount effect of the hook: the in-memory state is read from LocalStorage.
LoadState ==
    /\ ~stateLoaded
    /\ state' = [lastFetchTime |->
                    IF storage[LAST_FETCH_KEY] # Undefined
                    THEN parseInt(storage[LAST_FETCH_KEY]) ELSE 0,
                 rateLimitResetTime |->
                    IF storage[RATE_LIMIT_RESET_KEY] # Undefined
                    THEN parseInt(storage[RATE_LIMIT_RESET_KEY]) ELSE Null]
    /\ stateLoaded' = TRUE
    /\ UNCHANGED <<now, ticks, storage, session, prsFetch, feedFetch,
                   isRefreshing, manualInFlight, last, wrote>>
    /\ UNCHANGED convVars
    /\ UNCHANGED restVars

\* Mutant of Revalidates: the refresh goes ahead whatever the gate said.
Revalidates_always(blockedMessage) == TRUE

\* if (blockedMessage) { showToast(...); return; }
Revalidates(blockedMessage) == blockedMessage = NoMessage

\* handleRefresh, up to its await of the success toast: the gate is asked, and
\* on its null the flag is set and both requests are revalidated (useFetch
\* drops a request still in flight and issues a new one).
HandleRefresh ==
    /\ LET blockedMessage == checkRefreshAllowed
       IN /\ last' = [op |-> "checkRefreshAllowed", at |-> now, hint |-> Null,
                      ret |-> blockedMessage, pre |-> storage, session |-> session]
          /\ IF Revalidates(blockedMessage)
             THEN /\ isRefreshing' = TRUE
                  /\ feedFetch' = "inflight"
                  /\ prsFetch' = "inflight"
                  /\ manualInFlight' = IF manualInFlight < 2 THEN manualInFlight + 1 ELSE 2
             ELSE UNCHANGED <<isRefreshing, feedFetch, prsFetch, manualInFlight>>
    /\ UNCHANGED <<now, ticks, storage, session, state, stateLoaded, wrote>>
    /\ UNCHANGED convVars
    /\ UNCHANGED restVars

\* The Refresh action of the list: onAction={() => !isRefreshing && onRefresh?.()}
RefreshAction == ~isRefreshing /\ HandleRefresh

\* handleRefresh, after the success toast: setIsRefreshing(false).
RefreshDone ==
    /\ isRefreshing
    /\ isRefreshing' = FALSE
    /\ UNCHANGED <<now, ticks, storage, session, state, stateLoaded, prsFetch,
                   feedFetch, manualInFlight, last, wrote>>
    /\ UNCHANGED convVars
    /\ UNCHANGED restVars

\* The feed request settles (default parseResponse: the gate is not involved).
FeedResponse ==
    /\ feedFetch = "inflight"
    /\ feedFetch' = "idle"
    /\ UNCHANGED <<now, ticks, storage, session, state, stateLoaded, prsFetch,
                   isRefreshing, manualInFlight, last, wrote>>
    /\ UNCHANGED convVars
    /\ UNCHANGED restVars

\* parseResponse of the PR request, on a 403 or 429, up to its return.
RecordsRateLimit ==
    /\ prsFetch = "inflight"
    /\ \E status \in {403, 429}, resetHeader \in ResetHeaders :
        LET resetEpoch == ResetEpoch(resetHeader)
            r == recordRateLimit(resetEpoch)
        IN /\ storage' = r.storage
           /\ state' = [state EXCEPT !.rateLimitResetTime =
                            IF Truthy(resetEpoch) THEN resetEpoch * 1000
                            ELSE now + 60 * 60 * 1000]
           /\ last' = [op |-> "recordRateLimit", at |-> now, hint |-> resetEpoch,
                       ret |-> r.message, pre |-> storage, session |-> session]
           /\ wrote' = [wrote EXCEPT !.reset = IF resetEpoch # Null THEN resetEpoch * 1000
                                               ELSE now + 60 * 60 * 1000,
                                     !.resetBy = "recordRateLimit",
                                     !.session = session]
    /\ prsFetch' = "idle"
    /\ manualInFlight' = 0
    /\ UNCHANGED <<now, ticks, session, stateLoaded, feedFetch, isRefreshing>>

\* parseResponse of the PR request, on a 403 or 429.
ParseResponseRateLimited ==
    /\ RecordsRateLimit
    /\ UNCHANGED convVars
    /\ UNCHANGED restVars

\* parseResponse of the PR request, on every other status, up to its return.
RecordsFetch ==
    /\ prsFetch = "inflight"
    /\ \E status \in {200, 500}, resetHeader \in ResetHeaders :
        LET resetEpoch == ResetEpoch(resetHeader)
        IN /\ storage' = recordFetch(resetEpoch)
           /\ state' = [lastFetchTime |-> now,
                        rateLimitResetTime |-> IF Truthy(resetEpoch) THEN resetEpoch * 1000
                                               ELSE Null]
           /\ last' = [op |-> "recordFetch", at |-> now, hint |-> resetEpoch,
                       ret |-> NoMessage, pre |-> storage, session |-> session]
           /\ wrote' = [lastFetch |-> now,
                        reset |-> IF resetEpoch # Null THEN resetEpoch * 1000 ELSE Null,
                        resetBy |-> IF resetEpoch # Null THEN "recordFetch" ELSE "none",
                        session |-> session]
    /\ prsFetch' = "idle"
    /\ manualInFlight' = 0
    /\ UNCHANGED <<now, ticks, session, stateLoaded, feedFetch, isRefreshing>>

\* parseResponse of the PR request, on every other status.
ParseResponseFetched ==
    /\ RecordsFetch
    /\ UNCHANGED convVars
    /\ UNCHANGED restVars

\* The command is closed and opened again: the in-memory state is gone,
\* LocalStorage is kept, and useFetch issues both requests on mount.
Restart ==
    /\ session < MaxRestarts
    /\ session' = session + 1
    /\ state' = InitialState
    /\ stateLoaded' = FALSE
    /\ prsFetch' = "inflight"
    /\ feedFetch' = "inflight"
    /\ isRefreshing' = FALSE
    /\ manualInFlight' = 0
    /\ UNCHANGED <<now, ticks, storage, last, wrote>>
    /\ UNCHANGED convVars
    /\ UNCHANGED restVars

NextGate ==
    \/ Tick
    \/ LoadState
    \/ RefreshAction
    \/ RefreshDone
    \/ FeedResponse
    \/ ParseResponseRateLimited
    \/ ParseResponseFetched
    \/ Restart

SpecGate == InitGate /\ [][NextGate]_vars

\* ------------------------------------------------- convertPRsToStoreItems

\* newItemDates.get(slug): undefined (NoDate) for a slug that is not a key.
MapGet(m, k) == IF k \in DOMAIN m THEN m[k] ELSE NoDate

\* Mutant of NotNewerThanFeed: a record merged exactly at the feed date is kept.
NotNewerThanFeed_strict(merged_at, feedDate) ==
    feedDate # NoDate /\ merged_at < feedDate

\* feedDate && new Date(merged_at).getTime() <= new Date(feedDate).getTime()
NotNewerThanFeed(merged_at, feedDate) ==
    feedDate # NoDate /\ merged_at <= feedDate

\* One iteration of the first for-loop over prs (n is the PR's place in prs).
FirstPassStep(acc, n) ==
    LET pr == prs[n]
    IN IF pr.merged_at = NoDate THEN acc
       ELSE IF pr.removal
       THEN [acc EXCEPT !.removalCandidatePRs = Append(@, n)]
       ELSE LET slug == pr.parsed
            IN IF slug # NoSlug
               THEN IF NotNewerThanFeed(pr.merged_at, MapGet(newItemDates, slug)) THEN acc
                    ELSE IF slug \in acc.seen THEN acc
                    ELSE [acc EXCEPT !.seen = @ \cup {slug},
                                     !.updateCandidates = Append(@, [pr |-> n, slug |-> slug])]
               ELSE [acc EXCEPT !.needsFileFallback = Append(@, n)]

RECURSIVE FirstPassLoop(_, _)
FirstPassLoop(n, acc) ==
    IF n > Len(prs) THEN acc ELSE FirstPassLoop(n + 1, FirstPassStep(acc, n))

\* One iteration of the for-loop over slugResults.
FallbackStep(acc, i) ==
    LET n == needsFileFallback[i]
        slug == slugResults[i]
    IN IF slug = NoSlug THEN acc
       ELSE IF NotNewerThanFeed(prs[n].merged_at, MapGet(newItemDates, slug)) THEN acc
       ELSE IF slug \in acc.seen THEN acc
       ELSE [acc EXCEPT !.seen = @ \cup {slug},
                        !.updateCandidates = Append(@, [pr |-> n, slug |-> slug])]

RECURSIVE FallbackLoop(_, _)
FallbackLoop(i, acc) ==
    IF i > Len(slugResults) THEN acc ELSE FallbackLoop(i + 1, FallbackStep(acc, i))

\* The StoreItem built for an update candidate once its package.json lookup
\* has settled.
UpdatedItem(cand, pkgInfo) ==
    [type |-> "updated", extensionSlug |-> cand.slug, pr |-> cand.pr,
     date |-> prs[cand.pr].merged_at, pkgInfo |-> pkgInfo]

\* The fields of PR n that the pass only copies into its items, each a value
\* of its own: pr.user and pr.html_url.
User(n) ==
    [login |-> <<"login", n>>, avatar_url |-> <<"avatar_url", n>>,
     html_url |-> <<"user.html_url", n>>]
html_url(n) == <<"html_url", n>>

\* The summary of every Removed item.
RemovedSummary == "This extension has been removed from the Raycast Store."

\* The StoreItem pushed for a confirmed removal.
RemovedItem(n, slug) ==
    [type |-> "removed", extensionSlug |-> slug, pr |-> n,
     date |-> prs[n].merged_at, pkgInfo |-> "null",
     summary |-> RemovedSummary,
     image |-> User(n).avatar_url,
     authorName |-> User(n).login,
     authorUrl |-> User(n).html_url,
     url |-> html_url(n),
     prUrl |-> html_url(n),
     platforms |-> <<"macOS">>]

\* if (removedSeen.has(slug)) continue; -- the place in slugs, from i on, of the
\* first slug the loop stops at to await its lookup (Len + 1: loop over).
RECURSIVE SkipSeen(_, _, _)
SkipSeen(slugs, i, rSeen) ==
    IF i > Len(slugs) THEN i
    ELSE IF slugs[i] \in rSeen THEN SkipSeen(slugs, i + 1, rSeen)
    ELSE i

\* Mutant of StillExists: the confirmation is skipped.
StillExists_never(pkgInfo) == FALSE

\* pkgInfo !== null: the candidate is still in the store, nothing is emitted.
StillExists(pkgInfo) == pkgInfo # "null"

\* A removal task before its files response.
NewRemovalTask ==
    [pc |-> "files", slugs |-> <<>>, idx |-> 1, items |-> <<>>,
     ok |-> FALSE, touched |-> {}, kept |-> {}, lookups |-> <<>>]

\* What a files response says about each slug, kept with the removal task for
\* the properties (the code does not read it): the slugs with a changed file
\* under extensions/{slug}/, and those of them with a file that is not a
\* deletion.
Touched(response) ==
    {s \in Slugs : \E j \in 1..Len(response.files) :
        LET f == response.files[j].filename
        IN Len(f) >= 3 /\ f[1] = "extensions" /\ f[2] = s}
Kept(response) ==
    {s \in Slugs : \E j \in 1..Len(response.files) :
        LET f == response.files[j].filename
        IN /\ Len(f) >= 3 /\ f[1] = "extensions" /\ f[2] = s
           /\ response.files[j].status # "removed"}

\* Every value the three network-calling functions can settle with, over all
\* the answers of their endpoints.
FallbackOutcomes == {fetchExtensionSlugFromPRFiles(r) : r \in FilesResponses}
PkgOutcomes == {fetchExtensionPackageInfo(r) : r \in PkgResponses}
RemovalOutcomes ==
    {[slugs |-> fetchRemovedSlugsFromPR(r), ok |-> r.status = "200",
      touched |-> Touched(r), kept |-> Kept(r)] : r \in FilesResponses}

InitConv ==
    /\ InitGateVars
    /\ InitPureIdle
    /\ InitEffectIdle
    /\ InitUiIdle
    /\ prs \in SeqsUpTo(PRKinds, MaxPRs)
    /\ newItemDates \in [Slugs -> Dates \cup {NoDate}]
    /\ pc = "start"
    /\ seen = {}
    /\ updateCandidates = <<>>
    /\ removalCandidatePRs = <<>>
    /\ needsFileFallback = <<>>
    /\ slugResults = <<>>
    /\ pkgInfos = <<>>
    /\ removedSeen = {}
    /\ rtask = <<>>
    /\ result = [updated |-> <<>>, removed |-> <<>>]

\* The synchronous first pass, up to the first await.
FirstPass ==
    /\ pc = "start"
    /\ LET acc == FirstPassLoop(1, [seen |-> {}, updateCandidates |-> <<>>,
                                    removalCandidatePRs |-> <<>>,
                                    needsFileFallback |-> <<>>])
       IN /\ seen' = acc.seen
          /\ updateCandidates' = acc.updateCandidates
          /\ removalCandidatePRs' = acc.removalCandidatePRs
          /\ needsFileFallback' = acc.needsFileFallback
          /\ slugResults' = [i \in 1..Len(acc.needsFileFallback) |-> "pending"]
          /\ pkgInfos' = [i \in 1..Len(acc.updateCandidates) |-> "pending"]
          /\ pc' = IF Len(acc.needsFileFallback) > 0 THEN "fallback" ELSE "updates"
    /\ UNCHANGED gateVars
    /\ UNCHANGED restVars
    /\ UNCHANGED <<prs, newItemDates, removedSeen, rtask, result>>

\* One fetchExtensionSlugFromPRFiles of the fallback fan-out settles.
FallbackFilesResponse ==
    /\ pc = "fallback"
    /\ \E i \in 1..Len(slugResults), slug \in FallbackOutcomes :
        /\ slugResults[i] = "pending"
        /\ slugResults' = [slugResults EXCEPT ![i] = slug]
    /\ UNCHANGED gateVars
    /\ UNCHANGED restVars
    /\ UNCHANGED <<prs, newItemDates, pc, seen, updateCandidates, removalCandidatePRs,
                   needsFileFallback, pkgInfos, removedSeen, rtask, result>>

\* Promise.all of the fallback fan-out resolved: the loop over slugResults.
FallbackJoin ==
    /\ pc = "fallback"
    /\ \A i \in 1..Len(slugResults) : slugResults[i] # "pending"
    /\ LET acc == FallbackLoop(1, [seen |-> seen, updateCandidates |-> updateCandidates])
       IN /\ seen' = acc.seen
          /\ updateCandidates' = acc.updateCandidates
          /\ pkgInfos' = [i \in 1..Len(acc.updateCandidates) |-> "pending"]
    /\ pc' = "updates"
    /\ UNCHANGED gateVars
    /\ UNCHANGED restVars
    /\ UNCHANGED <<prs, newItemDates, removalCandidatePRs, needsFileFallback,
                   slugResults, removedSeen, rtask, result>>

\* One fetchExtensionPackageInfo of the update fan-out settles.
UpdatePkgResponse ==
    /\ pc = "updates"
    /\ \E i \in 1..Len(pkgInfos), pkgInfo \in PkgOutcomes :
        /\ pkgInfos[i] = "pending"
        /\ pkgInfos' = [pkgInfos EXCEPT ![i] = pkgInfo]
    /\ UNCHANGED gateVars
    /\ UNCHANGED restVars
    /\ UNCHANGED <<prs, newItemDates, pc, seen, updateCandidates, removalCandidatePRs,
                   needsFileFallback, slugResults, removedSeen, rtask, result>>

\* Promise.all of the update fan-out resolved: updatedItems is final and the
\* removal fan-out starts.
UpdatesJoin ==
    /\ pc = "updates"
    /\ \A i \in 1..Len(pkgInfos) : pkgInfos[i] # "pending"
    /\ result' = [result EXCEPT !.updated =
                     [i \in 1..Len(updateCandidates) |->
                         UpdatedItem(updateCandidates[i], pkgInfos[i])]]
    /\ removedSeen' = {}
    /\ rtask' = [i \in 1..Len(removalCandidatePRs) |-> NewRemovalTask]
    /\ pc' = "removals"
    /\ UNCHANGED gateVars
    /\ UNCHANGED restVars
    /\ UNCHANGED <<prs, newItemDates, seen, updateCandidates, removalCandidatePRs,
                   needsFileFallback, slugResults, pkgInfos>>

\* A removal task's fetchRemovedSlugsFromPR settles; the task runs on to its
\* first await of fetchExtensionPackageInfo, or to its end.
RemovalFilesResponse ==
    /\ pc = "removals"
    /\ \E i \in 1..Len(rtask), o \in RemovalOutcomes :
        /\ rtask[i].pc = "files"
        /\ LET slugs == o.slugs
               next == SkipSeen(slugs, 1, removedSeen)
           IN rtask' = [rtask EXCEPT ![i] =
                  [@ EXCEPT !.slugs = slugs,
                            !.idx = next,
                            !.pc = IF next > Len(slugs) THEN "done" ELSE "pkg",
                            !.ok = o.ok,
                            !.touched = o.touched,
                            !.kept = o.kept]]
    /\ UNCHANGED gateVars
    /\ UNCHANGED restVars
    /\ UNCHANGED <<prs, newItemDates, pc, seen, updateCandidates, removalCandidatePRs,
                   needsFileFallback, slugResults, pkgInfos, removedSeen, result>>

\* A removal task's fetchExtensionPackageInfo settles; the task runs on to
\* its next await, or to its end.
RemovalPkgResponse ==
    /\ pc = "removals"
    /\ \E i \in 1..Len(rtask), response \in PkgResponses :
        /\ rtask[i].pc = "pkg"
        /\ LET t == rtask[i]
               pkgInfo == fetchExtensionPackageInfo(response)
               slug == t.slugs[t.idx]
               rSeen == IF StillExists(pkgInfo) THEN removedSeen ELSE removedSeen \cup {slug}
               items == IF StillExists(pkgInfo) THEN t.items
                        ELSE Append(t.items, RemovedItem(removalCandidatePRs[i], slug))
               next == SkipSeen(t.slugs, t.idx + 1, rSeen)
           IN /\ removedSeen' = rSeen
              /\ rtask' = [rtask EXCEPT ![i] =
                    [@ EXCEPT !.items = items,
                              !.idx = next,
                              !.pc = IF next > Len(t.slugs) THEN "done" ELSE "pkg",
                              !.lookups = Append(@, [slug |-> slug, pkgInfo |-> pkgInfo,
                                                      response |-> response])]]
    /\ UNCHANGED gateVars
    /\ UNCHANGED restVars
    /\ UNCHANGED <<prs, newItemDates, pc, seen, updateCandidates, removalCandidatePRs,
                   needsFileFallback, slugResults, pkgInfos, result>>

RECURSIVE Flat(_, _)
Flat(tasks, i) ==
    IF i > Len(tasks) THEN <<>> ELSE tasks[i].items \o Flat(tasks, i + 1)

\* Promise.all of the removal fan-out resolved: removalResults.flat() and the
\* return.
RemovalsJoin ==
    /\ pc = "removals"
    /\ \A i \in 1..Len(rtask) : rtask[i].pc = "done"
    /\ result' = [result EXCEPT !.removed = Flat(rtask, 1)]
    /\ pc' = "done"
    /\ UNCHANGED gateVars
    /\ UNCHANGED restVars
    /\ UNCHANGED <<prs, newItemDates, seen, updateCandidates, removalCandidatePRs,
                   needsFileFallback, slugResults, pkgInfos, removedSeen, rtask>>

NextConv ==
    \/ FirstPass
    \/ FallbackFilesResponse
    \/ FallbackJoin
    \/ UpdatePkgResponse
    \/ UpdatesJoin
    \/ RemovalFilesResponse
    \/ RemovalPkgResponse
    \/ RemovalsJoin

SpecConv == InitConv /\ [][NextConv]_vars

\* ---------------------------------------------------- properties of a pass

Done == pc = "done"

\* The place of PR n in needsFileFallback (0: it is not there).
FallbackIndex(n) ==
    IF \E i \in 1..Len(needsFileFallback) : needsFileFallback[i] = n
    THEN CHOOSE i \in 1..Len(needsFileFallback) : needsFileFallback[i] = n
    ELSE 0

\* PR n got its slug from its labels or title.
ByTitle(n) == prs[n].parsed # NoSlug

\* The slug PR n resolves to, by label/title or by the changed-path fallback
\* (NoSlug: none, or the fallback has not settled yet).
ResolvedSlug(n) ==
    IF ByTitle(n) THEN prs[n].parsed
    ELSE IF FallbackIndex(n) # 0 /\ slugResults[FallbackIndex(n)] # "pending"
    THEN slugResults[FallbackIndex(n)]
    ELSE NoSlug

\* PR n is merged, no removal candidate, resolves to s and the feed-date rule
\* does not exclude it.
Qualifies(n, s) ==
    /\ prs[n].merged_at # NoDate
    /\ ~prs[n].removal
    /\ ResolvedSlug(n) = s
    /\ ~(newItemDates[s] # NoDate /\ prs[n].merged_at <= newItemDates[s])

UpdatedOf(s) == {i \in 1..Len(result.updated) : result.updated[i].extensionSlug = s}
RemovedOf(s) == {i \in 1..Len(result.removed) : result.removed[i].extensionSlug = s}

\* C1: in one pass at most one Updated event has slug s, and it comes from the
\* record that is first in the input list among the merged, non-removal
\* records that resolve to s (by label/title or by the changed-path fallback)
\* and that the feed-date rule does not exclude.
C1_FirstInInputWins ==
    Done =>
        \A s \in Slugs :
            /\ Cardinality(UpdatedOf(s)) <= 1
            /\ \A i \in UpdatedOf(s) :
                /\ Qualifies(result.updated[i].pr, s)
                /\ \A n \in 1..Len(prs) : Qualifies(n, s) => result.updated[i].pr <= n

\* C2: in one pass at most one Removed event has slug s, whatever the order in
\* which the file-list and metadata lookups of the removal candidates settle.
C2_OneRemovedPerSlug ==
    Done => \A s \in Slugs : Cardinality(RemovedOf(s)) <= 1

\* m is handled before n by the pass: the records resolved by label/title are
\* handled in input order in the first loop, those resolved by the
\* changed-path fallback in input order in the loop after it.
HandledBefore(m, n) ==
    \/ ByTitle(m) /\ ~ByTitle(n)
    \/ ByTitle(m) = ByTitle(n) /\ m < n

\* C3: for a slug X with feed publish date T, no Updated event for X comes
\* from a record merged at a time <= T; and a merged, non-removal record that
\* resolves to X and is merged after T gives X an Updated event, which comes
\* from that record when no qualifying record for X was handled before it.
C3_FeedDateRule ==
    /\ \A i \in 1..Len(updateCandidates) :
          LET c == updateCandidates[i]
          IN newItemDates[c.slug] # NoDate => prs[c.pr].merged_at > newItemDates[c.slug]
    /\ Done =>
          /\ \A i \in 1..Len(result.updated) :
                LET e == result.updated[i]
                IN newItemDates[e.extensionSlug] # NoDate
                      => e.date > newItemDates[e.extensionSlug]
          /\ \A n \in 1..Len(prs), X \in Slugs :
                (/\ prs[n].merged_at # NoDate
                 /\ ~prs[n].removal
                 /\ ResolvedSlug(n) = X
                 /\ newItemDates[X] # NoDate
                 /\ prs[n].merged_at > newItemDates[X])
                => /\ UpdatedOf(X) # {}
                   /\ (~\E m \in 1..Len(prs) : Qualifies(m, X) /\ HandledBefore(m, n))
                         => \E i \in UpdatedOf(X) : result.updated[i].pr = n

\* C3 witness: a finished pass in which one record for a slug of the feed was
\* merged no later than the feed date and produced nothing, and another was
\* merged after it and produced the Updated event.
C3_Witness ==
    /\ Done
    /\ \E X \in Slugs, m, n \in 1..Len(prs) :
          /\ newItemDates[X] # NoDate
          /\ ~prs[m].removal /\ prs[m].merged_at # NoDate /\ ResolvedSlug(m) = X
          /\ prs[m].merged_at <= newItemDates[X]
          /\ ~prs[n].removal /\ ResolvedSlug(n) = X
          /\ prs[n].merged_at > newItemDates[X]
          /\ \E i \in UpdatedOf(X) : result.updated[i].pr = n
          /\ ~\E i \in UpdatedOf(X) : result.updated[i].pr = m

NoDuplicates(q) == \A i, j \in 1..Len(q) : q[i] = q[j] => i = j

\* C4: fetchRemovedSlugsFromPR reports s exactly when some changed file lies
\* under extensions/s/ and every such file has status "removed"; a removal
\* candidate with a file under s that is not a deletion produces no Removed
\* event for s.
C4_OnlyFullDeletions ==
    /\ \A i \in 1..Len(rtask) :
          rtask[i].pc # "files" =>
              /\ Range(rtask[i].slugs) = rtask[i].touched \ rtask[i].kept
              /\ NoDuplicates(rtask[i].slugs)
              /\ \A k \in 1..Len(rtask[i].items) :
                    rtask[i].items[k].extensionSlug \notin rtask[i].kept
    /\ Done =>
          \A k \in 1..Len(result.removed) :
              \E i \in 1..Len(rtask) :
                  /\ removalCandidatePRs[i] = result.removed[k].pr
                  /\ result.removed[k].extensionSlug \in rtask[i].touched \ rtask[i].kept

\* C4 witness: a finished pass with a removal candidate that deleted every
\* file of one slug and only some files of another, and a Removed event for
\* the first.
C4_Witness ==
    /\ Done
    /\ \E i \in 1..Len(rtask) :
          /\ rtask[i].kept # {}
          /\ rtask[i].touched \ rtask[i].kept # {}
          /\ Len(rtask[i].items) > 0

\* C5: a Removed event is emitted for a reported slug only when its metadata
\* lookup returned null; when the lookup returned a descriptor, the record
\* emits no event for the slug and does not mark it as seen.
C5_ConfirmedByLookup ==
    /\ \A i \in 1..Len(rtask) :
          /\ \A k \in 1..Len(rtask[i].items) :
                \E l \in 1..Len(rtask[i].lookups) :
                    /\ rtask[i].lookups[l].slug = rtask[i].items[k].extensionSlug
                    /\ rtask[i].lookups[l].pkgInfo = "null"
          /\ \A l \in 1..Len(rtask[i].lookups) :
                rtask[i].lookups[l].pkgInfo # "null" =>
                    \A k \in 1..Len(rtask[i].items) :
                        rtask[i].items[k].extensionSlug # rtask[i].lookups[l].slug
    /\ removedSeen =
          {s \in Slugs : \E i \in 1..Len(rtask) : \E l \in 1..Len(rtask[i].lookups) :
              rtask[i].lookups[l].slug = s /\ rtask[i].lookups[l].pkgInfo = "null"}
    /\ Done =>
          \A k \in 1..Len(result.removed) :
              \E i \in 1..Len(rtask) : \E l \in 1..Len(rtask[i].lookups) :
                  /\ removalCandidatePRs[i] = result.removed[k].pr
                  /\ rtask[i].lookups[l].slug = result.removed[k].extensionSlug
                  /\ rtask[i].lookups[l].pkgInfo = "null"

\* C5 witness: a finished pass in which one record's lookup for a fully
\* deleted slug found a descriptor (no event, slug not seen) and its lookup
\* for another returned null (a Removed event).
C5_Witness ==
    /\ Done
    /\ \E i \in 1..Len(rtask) : \E l \in 1..Len(rtask[i].lookups) :
          /\ rtask[i].lookups[l].pkgInfo # "null"
          /\ rtask[i].lookups[l].slug \notin removedSeen
          /\ Len(rtask[i].items) = 1
          /\ Len(result.removed) = 1

\* --------------------------------------------- properties of the refresh gate

\* The number a stored decimal string denotes.
RECURSIVE Pow10(_)
Pow10(k) == IF k = 0 THEN 1 ELSE 10 * Pow10(k - 1)
RECURSIVE DecimalValue(_)
DecimalValue(str) ==
    IF Len(str) = 0 THEN 0
    ELSE Head(str) * Pow10(Len(str) - 1) + DecimalValue(Tail(str))

Checked == last.op = "checkRefreshAllowed"
Allowed == last.ret = NoMessage

\* C6: checkRefreshAllowed returns null exactly when there is no active limit
\* (no stored reset time, or now >= the reset time) and no fetch was ever
\* recorded or at least 5 minutes have passed since the last one; otherwise it
\* returns a message; it never writes the RefreshState.
C6_CheckDecision ==
    Checked =>
        /\ Allowed <=>
              /\ \/ last.pre[RATE_LIMIT_RESET_KEY] = Undefined
                 \/ last.at >= DecimalValue(last.pre[RATE_LIMIT_RESET_KEY])
              /\ \/ last.pre[LAST_FETCH_KEY] = Undefined
                 \/ last.at - DecimalValue(last.pre[LAST_FETCH_KEY]) >= 5 * 60 * 1000
        /\ ~Allowed => last.ret.n >= 1 /\ last.ret.unit # ""
        /\ storage = last.pre

\* C6 witness: a check that is allowed although a fetch and a reset time are
\* stored: the reset time has passed and the last fetch is 5 minutes old.
C6_Witness ==
    /\ Checked /\ Allowed
    /\ storage[LAST_FETCH_KEY] # Undefined
    /\ storage[RATE_LIMIT_RESET_KEY] # Undefined

Fetched == last.op = "recordFetch"

\* C7: recordFetch persists lastFetchEpochMs = now; with a reset hint it also
\* persists rateLimitResetEpochMs = hint * 1000, which refuses every check
\* before that time; without one it removes the stored reset time, so that a
\* check 5 minutes after the fetch is allowed.
C7_RecordFetch ==
    /\ Fetched =>
          /\ storage[LAST_FETCH_KEY] # Undefined
          /\ DecimalValue(storage[LAST_FETCH_KEY]) = last.at
          /\ last.hint # Null =>
                /\ storage[RATE_LIMIT_RESET_KEY] # Undefined
                /\ DecimalValue(storage[RATE_LIMIT_RESET_KEY]) = last.hint * 1000
          /\ last.hint = Null => storage[RATE_LIMIT_RESET_KEY] = Undefined
    /\ (Checked /\ wrote.resetBy = "recordFetch" /\ last.at < wrote.reset) => ~Allowed
    /\ (Checked /\ wrote.resetBy = "none" /\ wrote.lastFetch # Null
            /\ last.at - wrote.lastFetch >= 5 * 60 * 1000) => Allowed

\* C7 witness: a recordFetch without a hint that removed a stored reset time.
C7_Witness ==
    /\ Fetched
    /\ last.hint = Null
    /\ last.pre[RATE_LIMIT_RESET_KEY] # Undefined
    /\ storage[RATE_LIMIT_RESET_KEY] = Undefined

\* C8: once a successful (non-403/429) PR fetch has been recorded the stored
\* rate-limit field is cleared, and the field is only ever set by a detected
\* rate-limit response.
C8_FetchClearsLimit ==
    /\ Fetched => storage[RATE_LIMIT_RESET_KEY] = Undefined
    /\ storage[RATE_LIMIT_RESET_KEY] # Undefined => wrote.resetBy = "recordRateLimit"

RateLimited == last.op = "recordRateLimit"

\* C9: recordRateLimit persists rateLimitResetEpochMs = hint * 1000 with a hint
\* and now + 60 minutes without, and leaves lastFetchEpochMs as it was; until
\* a later recordFetch or recordRateLimit overwrites the reset time, every
\* check before that time is refused.
C9_RecordRateLimit ==
    /\ RateLimited =>
          /\ storage[RATE_LIMIT_RESET_KEY] # Undefined
          /\ DecimalValue(storage[RATE_LIMIT_RESET_KEY]) =
                IF last.hint # Null THEN last.hint * 1000 ELSE last.at + 60 * 60 * 1000
          /\ storage[LAST_FETCH_KEY] = last.pre[LAST_FETCH_KEY]
          /\ wrote.reset = DecimalValue(storage[RATE_LIMIT_RESET_KEY])
    /\ (Checked /\ wrote.resetBy = "recordRateLimit" /\ last.at < wrote.reset) => ~Allowed

\* C9 witness: a check refused by the reset time a recordRateLimit stored at
\* an earlier time, with no fetch on record.
C9_Witness ==
    /\ Checked /\ ~Allowed
    /\ wrote.resetBy = "recordRateLimit"
    /\ last.at < wrote.reset
    /\ storage[LAST_FETCH_KEY] = Undefined
    /\ ticks > 0

\* The decision on the RefreshState as the session that wrote it holds it.
AllowedBy(w, t) ==
    /\ w.reset = Null \/ t >= w.reset
    /\ w.lastFetch = Null \/ t - w.lastFetch >= 5 * 60 * 1000

\* C10: a check issued in a session other than the one that wrote the
\* RefreshState (in-memory state reset, LocalStorage kept) is allowed exactly
\* when a check at that time in the writing session would be.
C10_SurvivesRestart ==
    (Checked /\ last.session # wrote.session) => (Allowed <=> AllowedBy(wrote, last.at))

\* C10 witness: a check in the second session refused by what the first
\* session recorded.
C10_Witness ==
    /\ Checked /\ ~Allowed
    /\ last.session = 1
    /\ wrote.session = 0

\* C11: a manual refresh (handleRefresh) revalidates the feed and the PR list
\* exactly when checkRefreshAllowed returned null for it; a refused one issues
\* no request and leaves the stored RefreshState as it was; the requests of a
\* command start are issued without a call of the gate.
C11_GateOnlyManual ==
    [][ /\ HandleRefresh =>
            IF checkRefreshAllowed = NoMessage
            THEN /\ prsFetch' = "inflight"
                 /\ feedFetch' = "inflight"
                 /\ manualInFlight' > 0
            ELSE /\ prsFetch' = prsFetch
                 /\ feedFetch' = feedFetch
                 /\ manualInFlight' = manualInFlight
                 /\ storage' = storage
        /\ Restart =>
            /\ prsFetch' = "inflight"
            /\ feedFetch' = "inflight"
            /\ manualInFlight' = 0
            /\ last' = last
      ]_vars

\* C11 witness: in the second session the PR request of the command start is
\* in flight while a manual refresh has just been refused.
C11_Witness ==
    /\ Checked /\ ~Allowed
    /\ last.session = 1 /\ session = 1
    /\ prsFetch = "inflight"
    /\ manualInFlight = 0

\* C12: while a manual refresh that passed the gate has its PR response not
\* yet recorded by recordFetch or recordRateLimit, no second manual refresh
\* passes the gate and issues another request.
C12_ManualSerialized == manualInFlight <= 1

\* ----------------------------------------------------------------- strings

\* A JS string is the sequence of its characters; null (no match, no slug) is
\* NullString, which no sequence of characters equals.
NullString == <<"null">>

\* The characters \s matches.
Whitespace == {" ", "\t", "\n"}

UpperCaseLetters == <<"A", "B", "C", "D", "E", "F", "G", "H", "I", "J", "K", "L", "M", "N", "O", "P", "Q", "R", "S", "T", "U", "V", "W", "X", "Y", "Z">>
LowerCaseLetters == <<"a", "b", "c", "d", "e", "f", "g", "h", "i", "j", "k", "l", "m", "n", "o", "p", "q", "r", "s", "t", "u", "v", "w", "x", "y", "z">>

\* Mutant of toLowerCase: the string is left as it is.
toLowerCase_identity(str) == str

\* String.prototype.toLowerCase
toLowerCase(str) ==
    [i \in 1..Len(str) |->
        IF \E k \in 1..26 : UpperCaseLetters[k] = str[i]
        THEN LowerCaseLetters[CHOOSE k \in 1..26 : UpperCaseLetters[k] = str[i]]
        ELSE str[i]]

\* String.prototype.trim
RECURSIVE trimStart(_)
trimStart(str) ==
    IF Len(str) > 0 /\ Head(str) \in Whitespace THEN trimStart(Tail(str)) ELSE str
RECURSIVE trimEnd(_)
trimEnd(str) ==
    IF Len(str) > 0 /\ str[Len(str)] \in Whitespace
    THEN trimEnd(SubSeq(str, 1, Len(str) - 1)) ELSE str
trim(str) == trimEnd(trimStart(str))

\* str.replace(/\s+/g, "-"): every run of whitespace becomes one hyphen.
RECURSIVE ReplaceWhitespace(_, _)
ReplaceWhitespace(str, i) ==
    IF i > Len(str) THEN <<>>
    ELSE IF str[i] \in Whitespace
    THEN IF i > 1 /\ str[i - 1] \in Whitespace
         THEN ReplaceWhitespace(str, i + 1)
         ELSE <<"-">> \o ReplaceWhitespace(str, i + 1)
    ELSE <<str[i]>> \o ReplaceWhitespace(str, i + 1)

\* String.prototype.startsWith
startsWith(str, prefix) ==
    Len(str) >= Len(prefix) /\ SubSeq(str, 1, Len(prefix)) = prefix

\* The place of the first c in str (0: none).
IndexOf(str, c) ==
    IF \E i \in 1..Len(str) : str[i] = c
    THEN CHOOSE i \in 1..Len(str) : str[i] = c /\ \A j \in 1..(i - 1) : str[j] # c
    ELSE 0

\* ------------------------------------------------ parseExtensionSlugFromPR

\* label.name.match(/^extension:\s*(.+)$/i): match[1], or null. \s* gives one
\* character back when nothing but whitespace follows the colon.
LabelMatch(name) ==
    LET prefix == <<"e", "x", "t", "e", "n", "s", "i", "o", "n", ":">>
        rest == SubSeq(name, Len(prefix) + 1, Len(name))
        spaces == Len(rest) - Len(trimStart(rest))
        from == IF spaces = Len(rest) THEN spaces ELSE spaces + 1
        group == SubSeq(rest, from, Len(rest))
    IN IF startsWith(toLowerCase(name), prefix) /\ Len(rest) >= 1
            /\ \A i \in 1..Len(group) : group[i] # "\n"
       THEN group
       ELSE NullString

\* title.match(/^([^:]+):\s/): match[1], or null.
ColonMatch(title) ==
    LET colon == IndexOf(title, ":")
    IN IF colon >= 2 /\ colon < Len(title) /\ title[colon + 1] \in Whitespace
       THEN SubSeq(title, 1, colon - 1)
       ELSE NullString

\* title.match(/^\[([^\]]+)\]/): match[1], or null.
BracketMatch(title) ==
    LET close == IndexOf(title, "]")
    IN IF Len(title) >= 1 /\ title[1] = "[" /\ close >= 3
       THEN SubSeq(title, 2, close - 1)
       ELSE NullString

\* The alternatives of the prefix test.
CommitVerbs ==
    { <<"f", "i", "x">>, <<"f", "e", "a", "t">>, <<"c", "h", "o", "r", "e">>, <<"d", "o", "c", "s">>, <<"c", "i">>, <<"b", "u", "i", "l", "d">>, <<"r", "e", "f", "a", "c", "t", "o", "r">>, <<"t", "e", "s", "t">>,
      <<"s", "t", "y", "l", "e">>, <<"p", "e", "r", "f">>, <<"r", "e", "v", "e", "r", "t">>, <<"b", "u", "m", "p">>, <<"u", "p", "d", "a", "t", "e">>, <<"a", "d", "d">>, <<"r", "e", "m", "o", "v", "e">>, <<"m", "e", "r", "g", "e">> }

\* /^(fix|feat|...|merge)/i.test(name)
IsCommitPrefix(name) == \E verb \in CommitVerbs : startsWith(toLowerCase(name), verb)

\* The for-loop over pr.labels: the slug of the first matching label, or null.
RECURSIVE LabelLoop(_, _)
LabelLoop(labels, i) ==
    IF i > Len(labels) THEN NullString
    ELSE LET match == LabelMatch(labels[i])
         IN IF match # NullString
            THEN ReplaceWhitespace(toLowerCase(trim(match)), 1)
            ELSE LabelLoop(labels, i + 1)

parseExtensionSlugFromPR(pr) ==
    LET fromLabel == LabelLoop(pr.labels, 1)
        colonMatch == ColonMatch(pr.title)
        bracketMatch == BracketMatch(pr.title)
    IN IF fromLabel # NullString THEN fromLabel
       ELSE IF colonMatch # NullString /\ ~IsCommitPrefix(trim(colonMatch))
       THEN ReplaceWhitespace(toLowerCase(trim(colonMatch)), 1)
       ELSE IF bracketMatch # NullString
       THEN ReplaceWhitespace(toLowerCase(trim(bracketMatch)), 1)
       ELSE NullString

\* ---------------------------------------------------- extractLatestChanges

\* str.split(sep) and parts.join(sep), sep one character.
RECURSIVE split(_, _)
split(str, sep) ==
    LET i == IndexOf(str, sep)
    IN IF i = 0 THEN <<str>>
       ELSE <<SubSeq(str, 1, i - 1)>> \o split(SubSeq(str, i + 1, Len(str)), sep)
RECURSIVE join(_, _)
join(parts, sep) ==
    IF Len(parts) = 0 THEN <<>>
    ELSE IF Len(parts) = 1 THEN parts[1]
    ELSE parts[1] \o <<sep>> \o join(Tail(parts), sep)

\* Mutant of IsHeading: the blank after the two hashes is not asked for.
IsHeading_noBlank(line) == startsWith(line, <<"#", "#">>)

\* line.startsWith("## ")
IsHeading(line) == startsWith(line, <<"#", "#", " ">>)

\* The for-loop of extractLatestChanges, from line i on.
RECURSIVE LatestLoop(_, _, _, _)
LatestLoop(lines, i, started, res) ==
    IF i > Len(lines) THEN res
    ELSE IF IsHeading(lines[i])
    THEN IF started THEN res
         ELSE LatestLoop(lines, i + 1, TRUE, Append(res, lines[i]))
    ELSE IF started
    THEN LatestLoop(lines, i + 1, started, Append(res, lines[i]))
    ELSE LatestLoop(lines, i + 1, started, res)

extractLatestChanges(changelog) ==
    trim(join(LatestLoop(split(changelog, "\n"), 1, FALSE, <<>>), "\n"))

\* ----------------------------------- parseExtensionUrl, createStoreDeeplink

\* null as parseExtensionUrl returns it (a parsed URL has neither part empty).
NoExtensionUrl == [author |-> <<>>, extension |-> <<>>]

parseExtensionUrl(url) ==
    LET base == <<"h", "t", "t", "p", "s", ":", "/", "/", "w", "w", "w", ".", "r", "a", "y", "c", "a", "s", "t", ".", "c", "o", "m", "/">>
        path == SubSeq(url, Len(base) + 1, Len(url))
        parts == split(path, "/")
        author == parts[1]
        extension == IF Len(parts) >= 2 THEN parts[2] ELSE <<>>
    IN IF Len(url) = 0 \/ ~startsWith(url, base) THEN NoExtensionUrl
       ELSE IF author = <<>> \/ extension = <<>> THEN NoExtensionUrl
       ELSE [author |-> author, extension |-> extension]

createStoreDeeplink(url) ==
    LET parsed == parseExtensionUrl(url)
    IN IF parsed = NoExtensionUrl THEN url
       ELSE <<"r", "a", "y", "c", "a", "s", "t", ":", "/", "/", "e", "x", "t", "e", "n", "s", "i", "o", "n", "s", "/">> \o parsed.author \o <<"/">> \o parsed.extension

\* ------------------------------------------------ calls of the pure functions

\* Label names "extension: <name>" is written with, and the slug each stands for.
NamedLabels ==
    { [name |-> <<"F", "o", "o", " ", "B", "a", "r">>, slug |-> <<"f", "o", "o", "-", "b", "a", "r">>],
      [name |-> <<"f">>, slug |-> <<"f">>],
      [name |-> <<" ", "F", " ">>, slug |-> <<"f">>],
      [name |-> <<"F", " ", " ", "f">>, slug |-> <<"f", "-", "f">>] }
ExtensionPrefixes == { <<"e", "x", "t", "e", "n", "s", "i", "o", "n", ":">>, <<"e", "x", "t", "e", "n", "s", "i", "o", "n", ":", " ">>, <<"E", "x", "t", "e", "n", "s", "i", "o", "n", ":", " ">>, <<"E", "X", "T", "E", "N", "S", "I", "O", "N", ":">> }
ExtensionLabels == {p \o n.name : p \in ExtensionPrefixes, n \in NamedLabels}
OtherLabels == { <<"n", "o", "-", "r", "e", "v", "i", "e", "w">>, <<"e", "x", "t", "e", "n", "s", "i", "o", "n">>, <<"a", "n", " ", "e", "x", "t", "e", "n", "s", "i", "o", "n", ":", " ", "x">> }

\* Title prefixes, and the slug each stands for: the verbs of the list, and
\* some names.
TitlePrefixes ==
    {[name |-> v, slug |-> v] : v \in CommitVerbs}
        \cup { [name |-> <<"F", "i", "x">>, slug |-> <<"f", "i", "x">>],
               [name |-> <<"f", "i", "x", "e", "r">>, slug |-> <<"f", "i", "x", "e", "r">>],
               [name |-> <<"a", "d", "d", "-", "o", "n">>, slug |-> <<"a", "d", "d", "-", "o", "n">>],
               [name |-> <<"G", "o">>, slug |-> <<"g", "o">>],
               [name |-> <<" ", "G", "o">>, slug |-> <<"g", "o">>],
               [name |-> <<"G", "o", " ", "U", "p">>, slug |-> <<"g", "o", "-", "u", "p">>],
               [name |-> <<"[", "G", "o", "]", " ", "x">>, slug |-> <<"[", "g", "o", "]", "-", "x">>] }
ColonTitles == {n.name \o <<":", " ", "x">> : n \in TitlePrefixes}
Titles ==
    ColonTitles
        \cup {n.name \o <<":", "x">> : n \in TitlePrefixes}
        \cup {<<"[">> \o n.name \o <<"]", " ", "x">> : n \in TitlePrefixes}
        \cup {n.name : n \in TitlePrefixes}
        \cup { <<>> }

\* The PRs parseExtensionSlugFromPR is called with: every label list with a
\* few titles, and every title with the label lists that name no extension.
ParseInputs ==
    [fn : {"parseExtensionSlugFromPR"},
     labels : SeqsUpTo(ExtensionLabels \cup OtherLabels, MaxLabels),
     title : { <<>>, <<"G", "o", ":", " ", "x">>, <<"[", "G", "o", "]", " ", "x">>, <<"f", "i", "x", ":", " ", "x">> }]
        \cup [fn : {"parseExtensionSlugFromPR"},
              labels : SeqsUpTo(OtherLabels, MaxLabels),
              title : Titles]

FilesInputs == [fn : {"fetchExtensionSlugFromPRFiles"}, response : FilesResponses]

\* Changelogs, by their lines.
ChangelogLines == { <<"i", "n", "t", "r", "o">>, <<"#", "#", " ", "v", "2">>, <<"f", "i", "x", " ", "A">>, <<"#", "#", " ", "v", "1">>, <<"f", "i", "x", " ", "B">>, <<"#", "#", "#", " ", "s">>, <<>> }
ChangelogInputs ==
    {[fn |-> "extractLatestChanges", lines |-> ls, changelog |-> join(ls, "\n")] :
        ls \in SeqsUpTo(ChangelogLines, MaxLines) \ {<<>>}}

\* URLs, by what precedes the path and the path.
UrlBases ==
    { <<"h", "t", "t", "p", "s", ":", "/", "/", "w", "w", "w", ".", "r", "a", "y", "c", "a", "s", "t", ".", "c", "o", "m", "/">>, <<"h", "t", "t", "p", ":", "/", "/", "w", "w", "w", ".", "r", "a", "y", "c", "a", "s", "t", ".", "c", "o", "m", "/">>, <<"h", "t", "t", "p", "s", ":", "/", "/", "w", "w", "w", ".", "r", "a", "y", "c", "a", "s", "t", ".", "c", "o", "m">>,
      <<"h", "t", "t", "p", "s", ":", "/", "/", "e", "x", "a", "m", "p", "l", "e", ".", "c", "o", "m", "/">>, <<>> }
UrlSegments == { <<"a", "c", "m", "e">>, <<"w", "i", "d", "g", "e", "t">> }
UrlPaths ==
    {o \o <<"/">> \o x : o, x \in UrlSegments}
        \cup { <<>>, <<"a", "c", "m", "e">>, <<"a", "c", "m", "e", "/">>, <<"/", "w", "i", "d", "g", "e", "t">>, <<"a", "c", "m", "e", "/", "/", "w", "i", "d", "g", "e", "t">>, <<"a", "c", "m", "e", "/", "w", "i", "d", "g", "e", "t", "/">>,
               <<"a", "c", "m", "e", "/", "w", "i", "d", "g", "e", "t", "/", "c", "h", "a", "n", "g", "e", "l", "o", "g">> }
UrlInputs == {[fn |-> "createStoreDeeplink", url |-> b \o p] : b \in UrlBases, p \in UrlPaths}

\* package.json bodies: an object whose description field is there or not.
PkgBodies ==
    { [name |-> <<"g", "o">>],
      [name |-> <<"g", "o">>, description |-> <<>>],
      [name |-> <<"g", "o">>, description |-> <<"D", "o", "e", "s", " ", "t", "h", "i", "n", "g", "s">>] }

\* What the package.json endpoint answers, with the body of a 200.
PkgBodyResponses ==
    [status : {"200"}, pkg : PkgBodies]
        \cup [status : PkgResponses \ {"200"}, pkg : {[name |-> <<>>]}]

\* a ?? b on strings.
Coalesce(a, b) == IF a = NullString THEN b ELSE a

\* pkg.description, undefined when the object has no such field.
PkgDescription(pkg) ==
    IF "description" \in DOMAIN pkg THEN pkg.description ELSE NullString

\* The descriptor fetchExtensionPackageInfo returns, with its description,
\* or null.
NullPkgInfo == [null |-> TRUE]
PackageInfo(response) ==
    IF fetchExtensionPackageInfo(response.status) = "null" THEN NullPkgInfo
    ELSE [null |-> FALSE, description |-> Coalesce(PkgDescription(response.pkg), <<>>)]

\* The summary of the Updated item: pkgInfo?.description ?? pr.title.
UpdatedSummary(pkgInfo, title) ==
    Coalesce(IF pkgInfo.null THEN NullString ELSE pkgInfo.description, title)

\* The lookups and PR titles the summary of an Updated item is built from.
SummaryInputs ==
    [fn : {"updatedSummary"}, response : PkgBodyResponses,
     title : { <<"G", "o", ":", " ", "x">>, <<>> }]

InitPure ==
    /\ InitGateVars
    /\ InitConvIdle
    /\ InitEffectIdle
    /\ InitUiIdle
    /\ called = FALSE
    /\ output = <<>>
    /\ \/ input \in ParseInputs
       \/ input \in FilesInputs
       \/ input \in ChangelogInputs
       \/ input \in UrlInputs
       \/ input \in SummaryInputs

CallParseExtensionSlugFromPR ==
    /\ ~called /\ input.fn = "parseExtensionSlugFromPR"
    /\ output' = parseExtensionSlugFromPR(input)
    /\ called' = TRUE
    /\ UNCHANGED <<input, effectVars, convVars, gateVars, uiVars>>

CallFetchExtensionSlugFromPRFiles ==
    /\ ~called /\ input.fn = "fetchExtensionSlugFromPRFiles"
    /\ output' = fetchExtensionSlugFromPRFiles(input.response)
    /\ called' = TRUE
    /\ UNCHANGED <<input, effectVars, convVars, gateVars, uiVars>>

CallExtractLatestChanges ==
    /\ ~called /\ input.fn = "extractLatestChanges"
    /\ output' = extractLatestChanges(input.changelog)
    /\ called' = TRUE
    /\ UNCHANGED <<input, effectVars, convVars, gateVars, uiVars>>

CallCreateStoreDeeplink ==
    /\ ~called /\ input.fn = "createStoreDeeplink"
    /\ output' = createStoreDeeplink(input.url)
    /\ called' = TRUE
    /\ UNCHANGED <<input, effectVars, convVars, gateVars, uiVars>>

\* The update fan-out for one candidate, as far as the summary goes: the
\* lookup settles and the item is built.
CallUpdatedSummary ==
    /\ ~called /\ input.fn = "updatedSummary"
    /\ output' = UpdatedSummary(PackageInfo(input.response), input.title)
    /\ called' = TRUE
    /\ UNCHANGED <<input, effectVars, convVars, gateVars, uiVars>>

NextPure ==
    \/ CallParseExtensionSlugFromPR
    \/ CallFetchExtensionSlugFromPRFiles
    \/ CallExtractLatestChanges
    \/ CallCreateStoreDeeplink
    \/ CallUpdatedSummary

SpecPure == InitPure /\ [][NextPure]_vars

\* ------------------------------------------ properties of the pure functions

Returned(fn) == called /\ input.fn = fn

\* C13: for a PR with a label "extension: <name>", parseExtensionSlugFromPR
\* returns the name trimmed, lower-cased and with whitespace replaced by
\* hyphens ("extension: Foo Bar" gives "foo-bar"), whatever the title is: the
\* label rule goes before both title rules. (With several such labels, the
\* first one in the list.)
C13_LabelRule ==
    Returned("parseExtensionSlugFromPR") =>
        \A i \in 1..Len(input.labels), p \in ExtensionPrefixes, n \in NamedLabels :
            ( /\ input.labels[i] = p \o n.name
              /\ \A j \in 1..(i - 1) : input.labels[j] \notin ExtensionLabels )
                => output = n.slug

\* C13 witness: the label "Extension: Foo Bar", after a label that names no
\* extension, on a PR whose title the colon rule would resolve to "go".
C13_Witness ==
    /\ Returned("parseExtensionSlugFromPR")
    /\ input.labels = << <<"n", "o", "-", "r", "e", "v", "i", "e", "w">>, <<"E", "x", "t", "e", "n", "s", "i", "o", "n", ":", " ", "F", "o", "o", " ", "B", "a", "r">> >>
    /\ input.title = <<"G", "o", ":", " ", "x">>
    /\ output = <<"f", "o", "o", "-", "b", "a", "r">>

\* C14: for a PR with no extension label and a title "<prefix>: ...", the
\* colon rule returns the normalized prefix exactly when the prefix is not one
\* of the verbs fix, feat, chore, docs, ci, build, refactor, test, style, perf,
\* revert, bump, update, add, remove, merge (in any case); with such a verb
\* the result is that of the bracket rule, null for these titles.
C14_ColonRule ==
    Returned("parseExtensionSlugFromPR") =>
        \A n \in TitlePrefixes :
            ( /\ input.title = n.name \o <<":", " ", "x">>
              /\ \A i \in 1..Len(input.labels) : input.labels[i] \notin ExtensionLabels )
                => output = IF n.slug \in CommitVerbs THEN NullString ELSE n.slug

\* The places in a file list of the files under extensions/{s}/.
FilesUnder(files, s) ==
    {j \in 1..Len(files) :
        /\ Len(files[j].filename) >= 3
        /\ files[j].filename[1] = "extensions"
        /\ files[j].filename[2] = s}
FirstUnder(files, s) ==
    CHOOSE j \in FilesUnder(files, s) : \A k \in FilesUnder(files, s) : j <= k

\* C15: on a file list, fetchExtensionSlugFromPRFiles returns the slug with the
\* most changed files under extensions/{slug}/, of several such slugs the one
\* seen first in the list, and null when no file is under extensions/{slug}/.
C15_MostFilesFirstSeen ==
    (Returned("fetchExtensionSlugFromPRFiles") /\ input.response.status = "200") =>
        LET files == input.response.files
            n(s) == Cardinality(FilesUnder(files, s))
        IN IF \A s \in Slugs : n(s) = 0
           THEN output = NoSlug
           ELSE /\ output \in Slugs
                /\ n(output) > 0
                /\ \A t \in Slugs \ {output} :
                      \/ n(t) < n(output)
                      \/ n(t) = n(output) /\ n(t) > 0
                            /\ FirstUnder(files, output) < FirstUnder(files, t)

\* C15 witness: the first file is under extensions/a/, the two after it under
\* extensions/b/, and b is returned.
C15_Witness ==
    /\ Returned("fetchExtensionSlugFromPRFiles")
    /\ Len(input.response.files) = 3
    /\ FilesUnder(input.response.files, "a") = {1}
    /\ FilesUnder(input.response.files, "b") = {2, 3}
    /\ output = "b"

\* The lines of a changelog that start with "## ".
Headings(lines) ==
    {i \in 1..Len(lines) :
        Len(lines[i]) >= 3 /\ lines[i][1] = "#" /\ lines[i][2] = "#" /\ lines[i][3] = " "}

\* C16: extractLatestChanges returns the lines from the first line starting
\* with "## " up to, not including, the next such line, joined by newlines
\* and trimmed of surrounding whitespace, and "" when no line starts with
\* "## ".
C16_LatestSection ==
    Returned("extractLatestChanges") =>
        LET lines == input.lines
            H == Headings(lines)
        IN IF H = {} THEN output = <<>>
           ELSE LET first == CHOOSE i \in H : \A k \in H : i <= k
                    later == {k \in H : k > first}
                    next == IF later = {} THEN Len(lines) + 1
                            ELSE CHOOSE i \in later : \A k \in later : i <= k
                IN output = trim(join(SubSeq(lines, first, next - 1), "\n"))

\* C16 witness: "intro / ## v2 / fix A / ## v1 / fix B" gives "## v2 / fix A".
C16_Witness ==
    /\ Returned("extractLatestChanges")
    /\ input.changelog = <<"i", "n", "t", "r", "o", "\n", "#", "#", " ", "v", "2", "\n", "f", "i", "x", " ", "A", "\n", "#", "#", " ", "v", "1", "\n", "f", "i", "x", " ", "B">>
    /\ output = <<"#", "#", " ", "v", "2", "\n", "f", "i", "x", " ", "A">>

\* C17: createStoreDeeplink maps a store URL of the shape {base}/{owner}/{slug}
\* to raycast://extensions/{owner}/{slug}, and returns every URL that is not of
\* that shape unchanged.
C17_Deeplink ==
    Returned("createStoreDeeplink") =>
        IF \E o, x \in UrlSegments : input.url = <<"h", "t", "t", "p", "s", ":", "/", "/", "w", "w", "w", ".", "r", "a", "y", "c", "a", "s", "t", ".", "c", "o", "m", "/">> \o o \o <<"/">> \o x
        THEN \E o, x \in UrlSegments :
                /\ input.url = <<"h", "t", "t", "p", "s", ":", "/", "/", "w", "w", "w", ".", "r", "a", "y", "c", "a", "s", "t", ".", "c", "o", "m", "/">> \o o \o <<"/">> \o x
                /\ output = <<"r", "a", "y", "c", "a", "s", "t", ":", "/", "/", "e", "x", "t", "e", "n", "s", "i", "o", "n", "s", "/">> \o o \o <<"/">> \o x
        ELSE output = input.url

\* -------------------------------------------- properties of a pass, continued

\* The three network-calling functions on every answer that is a failure.
FailuresDegrade ==
    /\ \A r \in FilesResponses :
          r.status # "200" =>
              /\ fetchExtensionSlugFromPRFiles(r) = NoSlug
              /\ fetchRemovedSlugsFromPR(r) = <<>>
    /\ \A r \in PkgResponses \ {"200"} : fetchExtensionPackageInfo(r) = "null"

\* C18: no failure of a network call aborts a pass: on a transport error, a
\* non-success status or a parse error fetchExtensionPackageInfo returns null,
\* fetchExtensionSlugFromPRFiles null and fetchRemovedSlugsFromPR the empty
\* list; the pass can always go on until it resolves, and it resolves with an
\* Updated event for every slug a qualifying record resolved to and a Removed
\* event for every slug whose removal a lookup confirmed.
C18_FailuresDoNotAbort ==
    /\ FailuresDegrade
    /\ Done \/ ENABLED NextConv
    /\ Done =>
          /\ \A n \in 1..Len(prs), s \in Slugs : Qualifies(n, s) => UpdatedOf(s) # {}
          /\ \A i \in 1..Len(rtask) : \A k \in 1..Len(rtask[i].lookups) :
                rtask[i].lookups[k].pkgInfo = "null"
                    => RemovedOf(rtask[i].lookups[k].slug) # {}

\* C18 witness: a pass has resolved with an Updated event although the
\* package.json lookup of its record failed and the files request of a
\* removal candidate failed.
C18_Witness ==
    /\ Done
    /\ \E i \in 1..Len(rtask) : ~rtask[i].ok
    /\ \E j \in 1..Len(pkgInfos) :
          /\ pkgInfos[j] = "null"
          /\ result.updated[j].extensionSlug = updateCandidates[j].slug

\* C19: no slug has both an Updated and a Removed event in the result of one
\* pass.
C19_UpdatedRemovedDisjoint ==
    Done => \A s \in Slugs : UpdatedOf(s) = {} \/ RemovedOf(s) = {}

\* ------------------------------------------------------- new-items effect

\* The URLs of feed entries: store URLs, with the extension each names, and
\* URLs parseExtensionUrl does not accept.
StoreUrls ==
    { [url |-> <<"h", "t", "t", "p", "s", ":", "/", "/", "w", "w", "w", ".", "r", "a", "y", "c", "a", "s", "t", ".", "c", "o", "m", "/", "a", "c", "m", "e", "/", "a">>, extension |-> <<"a">>],
      [url |-> <<"h", "t", "t", "p", "s", ":", "/", "/", "w", "w", "w", ".", "r", "a", "y", "c", "a", "s", "t", ".", "c", "o", "m", "/", "a", "c", "m", "e", "/", "b">>, extension |-> <<"b">>] }
OtherUrls == { <<"h", "t", "t", "p", "s", ":", "/", "/", "e", "x", "a", "m", "p", "l", "e", ".", "c", "o", "m", "/", "a", "c", "m", "e", "/", "a">>, <<>> }

\* A feed entry (Feed.items[]): author is author.name.
FeedItems ==
    [id : {1, 2}, title : {"T1", "T2"}, summary : {"S"}, date_modified : Dates,
     author : {"A"}, url : {u.url : u \in StoreUrls} \cup OtherUrls]

\* What the map callback of the effect returns for an entry it drops.
NoItem == [type |-> "none"]

\* Mutant of NewItem: an entry whose package.json lookup failed is dropped.
NewItem_needsPkgInfo(item, extension, pkgInfo) ==
    IF pkgInfo = "null" THEN NoItem
    ELSE [id |-> item.id, title |-> item.title, summary |-> item.summary,
          date |-> item.date_modified, authorName |-> item.author, url |-> item.url,
          type |-> "new", extensionSlug |-> extension, pkgInfo |-> pkgInfo]

\* The StoreItem the map callback returns once the lookup has settled
\* (platforms, version, categories and icon are read from pkgInfo).
NewItem(item, extension, pkgInfo) ==
    [id |-> item.id, title |-> item.title, summary |-> item.summary,
     date |-> item.date_modified, authorName |-> item.author, url |-> item.url,
     type |-> "new", extensionSlug |-> extension, pkgInfo |-> pkgInfo]

\* results.filter((item) => item !== null)
RECURSIVE FilterNotNull(_, _)
FilterNotNull(results, i) ==
    IF i > Len(results) THEN <<>>
    ELSE IF results[i] # NoItem THEN <<results[i]>> \o FilterNotNull(results, i + 1)
    ELSE FilterNotNull(results, i + 1)

InitEffect ==
    /\ InitGateVars
    /\ InitConvIdle
    /\ InitPureIdle
    /\ InitUiIdle
    /\ feedData \in SeqsUpTo(FeedItems, MaxEntries)
    /\ feedPkgInfos = <<>>
    /\ effectPc = "start"
    /\ newItems = <<>>

\* The effect runs on feedData: every map callback runs to its await of
\* fetchExtensionPackageInfo, or returns null for a URL that does not parse.
NewItemsEffect ==
    /\ effectPc = "start"
    /\ feedPkgInfos' = [i \in 1..Len(feedData) |->
                          IF parseExtensionUrl(feedData[i].url) = NoExtensionUrl
                          THEN "unparsed" ELSE "pending"]
    /\ effectPc' = "lookups"
    /\ UNCHANGED <<feedData, newItems, pureVars, convVars, gateVars, uiVars>>

\* One fetchExtensionPackageInfo of the effect settles.
NewItemPkgResponse ==
    /\ effectPc = "lookups"
    /\ \E i \in 1..Len(feedPkgInfos), pkgInfo \in PkgOutcomes :
        /\ feedPkgInfos[i] = "pending"
        /\ feedPkgInfos' = [feedPkgInfos EXCEPT ![i] = pkgInfo]
    /\ UNCHANGED <<feedData, effectPc, newItems, pureVars, convVars, gateVars, uiVars>>

\* Promise.all resolved: setNewItems(results.filter(...)).
NewItemsJoin ==
    /\ effectPc = "lookups"
    /\ \A i \in 1..Len(feedPkgInfos) : feedPkgInfos[i] # "pending"
    /\ LET results == [i \in 1..Len(feedData) |->
                          IF feedPkgInfos[i] = "unparsed" THEN NoItem
                          ELSE NewItem(feedData[i],
                                       parseExtensionUrl(feedData[i].url).extension,
                                       feedPkgInfos[i])]
       IN newItems' = FilterNotNull(results, 1)
    /\ effectPc' = "done"
    /\ UNCHANGED <<feedData, feedPkgInfos, pureVars, convVars, gateVars, uiVars>>

NextEffect ==
    \/ NewItemsEffect
    \/ NewItemPkgResponse
    \/ NewItemsJoin

SpecEffect == InitEffect /\ [][NextEffect]_vars

\* ------------------------------------------- properties of the new-items effect

\* New item m is built from feed entry e.
FromEntry(m, e) ==
    /\ m.type = "new"
    /\ m.id = e.id /\ m.title = e.title /\ m.summary = e.summary
    /\ m.date = e.date_modified /\ m.authorName = e.author

\* The places in the feed of the entries with a store URL, in feed order.
RECURSIVE StoreEntries(_)
StoreEntries(i) ==
    IF i > Len(feedData) THEN <<>>
    ELSE IF feedData[i].url \in {u.url : u \in StoreUrls}
    THEN <<i>> \o StoreEntries(i + 1)
    ELSE StoreEntries(i + 1)

Messaged == last.op \in {"checkRefreshAllowed", "recordRateLimit"} /\ last.ret # NoMessage

\* The wait in ms the last retry message is about: to the stored reset time
\* when that lies ahead, else to the end of the 5 minutes after the last
\* fetch (a check); to the reset time just stored (recordRateLimit).
RemainingMs ==
    IF last.op = "recordRateLimit"
    THEN (IF last.hint # Null THEN last.hint * 1000 ELSE last.at + 60 * 60 * 1000) - last.at
    ELSE IF /\ last.pre[RATE_LIMIT_RESET_KEY] # Undefined
            /\ last.at < DecimalValue(last.pre[RATE_LIMIT_RESET_KEY])
    THEN DecimalValue(last.pre[RATE_LIMIT_RESET_KEY]) - last.at
    ELSE 5 * 60 * 1000 - (last.at - DecimalValue(last.pre[LAST_FETCH_KEY]))

\* n is a / b rounded up.
RoundedUp(n, a, b) == n * b >= a /\ (n - 1) * b < a

\* C21: every retry message states the remaining wait rounded up: in whole
\* seconds when the rounded-up seconds are below 60, else in whole minutes,
\* rounded up; a check 10 seconds after a recorded fetch, with no rate limit,
\* says 5 minutes.
C21_RoundedUp ==
    /\ Messaged =>
          LET secs == (RemainingMs + 999) \div 1000
          IN  /\ RoundedUp(secs, RemainingMs, 1000)
              /\ IF secs < 60
                 THEN last.ret.n = secs /\ last.ret.unit \in {"second", "seconds"}
                 ELSE RoundedUp(last.ret.n, secs, 60)
                        /\ last.ret.unit \in {"minute", "minutes"}
    /\ ( /\ Checked
         /\ last.pre[RATE_LIMIT_RESET_KEY] = Undefined
         /\ last.pre[LAST_FETCH_KEY] # Undefined
         /\ last.at - DecimalValue(last.pre[LAST_FETCH_KEY]) = 10 * 1000 )
            => last.ret = [n |-> 5, unit |-> "minutes"]

\* C21 witness: a check 10 seconds after a recorded fetch, no reset time
\* stored, answered with "5 minutes".
C21_Witness ==
    /\ Checked
    /\ last.pre[RATE_LIMIT_RESET_KEY] = Undefined
    /\ last.pre[LAST_FETCH_KEY] # Undefined
    /\ last.at - DecimalValue(last.pre[LAST_FETCH_KEY]) = 10 * 1000
    /\ last.ret = [n |-> 5, unit |-> "minutes"]

\* C29: every retry message, from checkRefreshAllowed or from recordRateLimit
\* (for any reset hint, one in the past included), states a wait of at least
\* 1 second.
C29_PositiveWait == Messaged => last.ret.n >= 1

\* -------------------------------------------------------- useFilterToggles

FilterToggles == [showMacOS : BOOLEAN, showWindows : BOOLEAN]

\* JSON.stringify of a FilterToggles, as its keys and values in order, and
\* JSON.parse of such a text.
JSONstringify(t) == <<"showMacOS", t.showMacOS, "showWindows", t.showWindows>>
JSONparse(text) == [showMacOS |-> text[2], showWindows |-> text[4]]

\* Mutant of UpdatedMacOS: the other platform is not switched back on.
UpdatedMacOS_noEnsure(prev) == [prev EXCEPT !.showMacOS = ~prev.showMacOS]

\* The updater of toggleMacOS: the next toggles for the previous ones.
UpdatedMacOS(prev) ==
    LET updated == [prev EXCEPT !.showMacOS = ~prev.showMacOS]
    IN IF ~updated.showMacOS /\ ~updated.showWindows
       THEN [updated EXCEPT !.showWindows = TRUE]
       ELSE updated

\* The updater of toggleWindows.
UpdatedWindows(prev) ==
    LET updated == [prev EXCEPT !.showWindows = ~prev.showWindows]
    IN IF ~updated.showWindows /\ ~updated.showMacOS
       THEN [updated EXCEPT !.showMacOS = TRUE]
       ELSE updated

\* The blobs toggleMacOS and toggleWindows persist.
PersistedBlobs ==
    {JSONstringify(u) : u \in {UpdatedMacOS(t) : t \in FilterToggles}
                              \cup {UpdatedWindows(t) : t \in FilterToggles}}

\* A session starts on nothing stored, or on a blob an earlier session
\* persisted.
InitToggles ==
    /\ InitGateVars
    /\ InitConvIdle
    /\ InitPureIdle
    /\ InitEffectIdle
    /\ InitNavIdle
    /\ InitDisplayIdle
    /\ toggles = DEFAULT_TOGGLES
    /\ loaded = FALSE
    /\ filterBlob \in {Undefined} \cup PersistedBlobs
    /\ persists = <<>>
    /\ lastToggle = NoToggle

\* The mount effect: LocalStorage.getItem(FILTER_KEY) has answered.
LoadToggles ==
    /\ ~loaded
    /\ toggles' = IF filterBlob # Undefined
                  THEN LET parsed == JSONparse(filterBlob)
                       IN [showMacOS |-> parsed.showMacOS, showWindows |-> parsed.showWindows]
                  ELSE toggles
    /\ loaded' = TRUE
    /\ UNCHANGED <<filterBlob, persists, lastToggle>>
    /\ UNCHANGED <<convVars, gateVars, pureVars, effectVars, navVars, displayVars>>

toggleMacOS ==
    /\ Len(persists) < MaxPending
    /\ toggles' = UpdatedMacOS(toggles)
    /\ persists' = Append(persists, JSONstringify(UpdatedMacOS(toggles)))
    /\ lastToggle' = [op |-> "toggleMacOS", prev |-> toggles]
    /\ UNCHANGED <<loaded, filterBlob>>
    /\ UNCHANGED <<convVars, gateVars, pureVars, effectVars, navVars, displayVars>>

toggleWindows ==
    /\ Len(persists) < MaxPending
    /\ toggles' = UpdatedWindows(toggles)
    /\ persists' = Append(persists, JSONstringify(UpdatedWindows(toggles)))
    /\ lastToggle' = [op |-> "toggleWindows", prev |-> toggles]
    /\ UNCHANGED <<loaded, filterBlob>>
    /\ UNCHANGED <<convVars, gateVars, pureVars, effectVars, navVars, displayVars>>

\* persist: one LocalStorage.setItem in flight lands.
PersistLands ==
    /\ \E i \in 1..Len(persists) :
        /\ filterBlob' = persists[i]
        /\ persists' = SubSeq(persists, 1, i - 1) \o SubSeq(persists, i + 1, Len(persists))
    /\ UNCHANGED <<toggles, loaded, lastToggle>>
    /\ UNCHANGED <<convVars, gateVars, pureVars, effectVars, navVars, displayVars>>

NextToggles ==
    \/ LoadToggles
    \/ toggleMacOS
    \/ toggleWindows
    \/ PersistLands

SpecToggles == InitToggles /\ [][NextToggles]_vars

\* C22: after any sequence of toggleMacOS and toggleWindows, from the default
\* toggles or from a blob these actions persisted, showMacOS or showWindows
\* is true, in the in-memory toggles and in the persisted blob.
C22_OnePlatformShown ==
    /\ toggles.showMacOS \/ toggles.showWindows
    /\ filterBlob # Undefined =>
          JSONparse(filterBlob).showMacOS \/ JSONparse(filterBlob).showWindows
    /\ \A i \in 1..Len(persists) :
          JSONparse(persists[i]).showMacOS \/ JSONparse(persists[i]).showWindows

\* C22 witness: toggleWindows found only Windows shown, switched macOS back
\* on, and the blob of that state has landed.
C22_Witness ==
    /\ lastToggle = [op |-> "toggleWindows",
                     prev |-> [showMacOS |-> FALSE, showWindows |-> TRUE]]
    /\ toggles = [showMacOS |-> TRUE, showWindows |-> FALSE]
    /\ filterBlob = JSONstringify(toggles)
    /\ persists = <<>>

\* ------------------------------------------------------- the bracket rule

\* What follows the bracketed name in the titles looked at.
BracketDescriptions == { <<" ", "x">>, <<" ", "x", ":", " ", "x">> }

\* C25: for a PR with no extension label and a title "[<name>] ...",
\* parseExtensionSlugFromPR returns the bracketed name trimmed, lower-cased
\* and with whitespace replaced by hyphens.
C25_BracketRule ==
    Returned("parseExtensionSlugFromPR") =>
        \A n \in TitlePrefixes, d \in BracketDescriptions :
            ( /\ input.title = <<"[">> \o n.name \o <<"]">> \o d
              /\ "[" \notin Range(n.name)
              /\ \A i \in 1..Len(input.labels) : input.labels[i] \notin ExtensionLabels )
                => output = n.slug

\* ------------------------------------------------------ the Removed items

\* C23: every Removed item carries the placeholder summary and the author,
\* avatar and URL of its PR, and carries no platforms and no categories.
C23_RemovedCarries ==
    \A k \in 1..Len(result.removed) :
        LET item == result.removed[k]
        IN /\ item.summary = RemovedSummary
           /\ item.authorName = User(item.pr).login
           /\ item.authorUrl = User(item.pr).html_url
           /\ item.image = User(item.pr).avatar_url
           /\ item.url = html_url(item.pr)
           /\ "platforms" \notin DOMAIN item
           /\ "categories" \notin DOMAIN item

\* C26: a Removed item for a slug is emitted only when the confirmation
\* lookup of that slug answered 404; a lookup that fails in another way
\* (transport error, another non-success status, unparsable body) leads to
\* no Removed item.
C26_OnlyOn404 ==
    \A i \in 1..Len(rtask) : \A k \in 1..Len(rtask[i].items) :
        \E l \in 1..Len(rtask[i].lookups) :
            /\ rtask[i].lookups[l].slug = rtask[i].items[k].extensionSlug
            /\ rtask[i].lookups[l].response = "404"

\* ------------------------------------------ the summary of an Updated item

\* C24: the summary of an Updated item is the description of the package.json
\* when the lookup found one with a description field, and the PR title when
\* the lookup failed or found a package.json with no description field.
C24_SummaryFallback ==
    Returned("updatedSummary") =>
        output = IF input.response.status = "200"
                      /\ "description" \in DOMAIN input.response.pkg
                 THEN input.response.pkg.description
                 ELSE input.title

\* ------------------------------------------------- changelog navigation

\* items[currentIndex] (currentIndex counts from 0) has an extensionSlug.
HasSlug(currentIndex) == navItems[currentIndex + 1]

\* The currentIndex of the ChangelogDetail on top of the navigation stack.
Top == navStack[Len(navStack)]

\* The list is showing, on any items, each with an extensionSlug or not.
InitNav ==
    /\ InitGateVars
    /\ InitConvIdle
    /\ InitPureIdle
    /\ InitEffectIdle
    /\ InitTogglesIdle
    /\ InitDisplayIdle
    /\ navItems \in SeqsUpTo(BOOLEAN, MaxItems)
    /\ navStack = <<>>
    /\ lastNav = NoNav

\* "View Changelog" on the list item at currentIndex.
ViewChangelog ==
    /\ navStack = <<>>
    /\ \E currentIndex \in 0..(Len(navItems) - 1) :
        /\ HasSlug(currentIndex)
        /\ navStack' = Append(navStack, currentIndex)
        /\ lastNav' = [action |-> "view", from |-> currentIndex]
    /\ UNCHANGED navItems
    /\ UNCHANGED <<convVars, gateVars, pureVars, effectVars, toggleVars, displayVars>>

\* "Next Changelog" in the changelog view on top.
NextChangelog ==
    /\ navStack # <<>>
    /\ LET currentIndex == Top
           hasNext == currentIndex < Len(navItems) - 1
       IN /\ hasNext /\ HasSlug(currentIndex + 1)
          /\ navStack' = Append(navStack, currentIndex + 1)
          /\ lastNav' = [action |-> "next", from |-> currentIndex]
    /\ UNCHANGED navItems
    /\ UNCHANGED <<convVars, gateVars, pureVars, effectVars, toggleVars, displayVars>>

\* "Previous Changelog" in the changelog view on top: pop.
PreviousChangelog ==
    /\ navStack # <<>>
    /\ LET currentIndex == Top
           hasPrevious == currentIndex > 0
       IN /\ hasPrevious /\ HasSlug(currentIndex - 1)
          /\ navStack' = SubSeq(navStack, 1, Len(navStack) - 1)
          /\ lastNav' = [action |-> "previous", from |-> currentIndex]
    /\ UNCHANGED navItems
    /\ UNCHANGED <<convVars, gateVars, pureVars, effectVars, toggleVars, displayVars>>

NextNav ==
    \/ ViewChangelog
    \/ NextChangelog
    \/ PreviousChangelog

SpecNav == InitNav /\ [][NextNav]_vars

\* C27: after "Previous Changelog" in the changelog view of the item at index
\* i the changelog view of the item at i - 1 is showing, and after "Next
\* Changelog" that of the item at i + 1, however the view at i was reached;
\* the index of the view showing is always within [0, items.length - 1].
C27_PreviousNext ==
    /\ lastNav.action = "previous" => navStack # <<>> /\ Top = lastNav.from - 1
    /\ lastNav.action = "next" => navStack # <<>> /\ Top = lastNav.from + 1
    /\ navStack # <<>> => Top \in 0..(Len(navItems) - 1)

\* ------------------------------------------ the command's PR-items effect

\* The PR lists the PR request answers with: PRs whose title gives the slug,
\* and removal candidates.
DisplayPRKinds ==
    { [merged_at |-> 1, removal |-> FALSE, parsed |-> "a"],
      [merged_at |-> 2, removal |-> TRUE, parsed |-> NoSlug] }
DisplayPRLists == SeqsUpTo(DisplayPRKinds, MaxPRs)

\* The New sets the new-items effect sets, by slug and date.
NewItemSets ==
    { <<>>, << [extensionSlug |-> "a", date |-> 2] >> }

\* What the network answers to the passes of this command: the package.json
\* of "b" is gone, that of every other slug is there, and the files of every
\* removal candidate are those of extensions/b/, all deleted.
SettledPkg(slug) == IF slug = "b" THEN "404" ELSE "200"
SettledFiles ==
    [status |-> "200",
     files |-> << [filename |-> <<"extensions", "b", "package.json">>,
                   status |-> "removed"] >>]

\* The for-loop of the effect over newItems: newItemDates.set(slug, date).
RECURSIVE NewItemDates(_, _, _)
NewItemDates(items, i, map) ==
    IF i > Len(items) THEN map
    ELSE NewItemDates(items, i + 1,
                      IF items[i].extensionSlug # NoSlug
                      THEN [map EXCEPT ![items[i].extensionSlug] = items[i].date]
                      ELSE map)

\* The removal fan-out of a pass whose lookups settle in the order of the
\* candidates: the Removed items of candidates i.. on.
RECURSIVE RemovedFrom(_, _, _)
RemovedFrom(candidates, i, rSeen) ==
    IF i > Len(candidates) THEN <<>>
    ELSE LET slugs == fetchRemovedSlugsFromPR(SettledFiles)
             gone == {k \in 1..Len(slugs) :
                        /\ slugs[k] \notin rSeen
                        /\ ~StillExists(fetchExtensionPackageInfo(SettledPkg(slugs[k])))
                        /\ \A j \in 1..(k - 1) : slugs[j] # slugs[k]}
             items == [k \in 1..Len(slugs) |-> RemovedItem(candidates[i], slugs[k])]
         IN SelectSeq(items, LAMBDA item : \E k \in gone : slugs[k] = item.extensionSlug)
                \o RemovedFrom(candidates, i + 1, rSeen \cup {slugs[k] : k \in gone})

\* What convertPRsToStoreItems(prs, newItemDates) resolves with on this
\* network (no PR of these lists needs the file fallback).
PassResult ==
    LET acc == FirstPassLoop(1, [seen |-> {}, updateCandidates |-> <<>>,
                                 removalCandidatePRs |-> <<>>,
                                 needsFileFallback |-> <<>>])
    IN [updated |-> [i \in 1..Len(acc.updateCandidates) |->
                        UpdatedItem(acc.updateCandidates[i],
                                    fetchExtensionPackageInfo(
                                        SettledPkg(acc.updateCandidates[i].slug)))],
        removed |-> RemovedFrom(acc.removalCandidatePRs, 1, {})]

\* The PR-items effect on a render with this prsData and these newItems:
\* nothing while prsData is undefined, else a pass is started.
PrItemsEffect(data, items, cause) ==
    IF data = Undefined
    THEN UNCHANGED <<prs, newItemDates, passes>>
    ELSE /\ prs' = data[1]
         /\ newItemDates' = NewItemDates(items, 1, [s \in Slugs |-> NoDate])
         /\ passes' = Append(passes, [updated |-> PassResult'.updated,
                                      removed |-> PassResult'.removed,
                                      cause |-> cause])

\* The command is mounted: both requests are in flight, nothing is shown.
InitDisplay ==
    /\ InitGateVars
    /\ InitConvIdle
    /\ InitPureIdle
    /\ InitEffectIdle
    /\ InitTogglesIdle
    /\ InitNavIdle
    /\ InitDisplayIdle

\* An hour passes.
HourPasses == Tick /\ now' = now + 60 * 60 * 1000

\* The feed request settles and the new-items effect sets newItems; the
\* PR-items effect runs on the new render.
NewItemsSet ==
    /\ feedFetch = "inflight"
    /\ Len(passes) < MaxPasses
    /\ feedFetch' = "idle"
    /\ \E items \in NewItemSets :
        /\ newItems' = items
        /\ PrItemsEffect(prsData, items, "newItems")
    /\ UNCHANGED <<now, ticks, storage, session, state, stateLoaded, prsFetch,
                   isRefreshing, manualInFlight, last, wrote>>
    /\ UNCHANGED <<pc, seen, updateCandidates, removalCandidatePRs, needsFileFallback,
                   slugResults, pkgInfos, removedSeen, rtask, result>>
    /\ UNCHANGED <<feedData, feedPkgInfos, effectPc>>
    /\ UNCHANGED <<prsData, updatedItems, removedItems>>
    /\ UNCHANGED <<pureVars, toggleVars, navVars>>

\* The PR request answers 200 with a PR list and no X-RateLimit-Reset header:
\* parseResponse records the fetch and returns the list, and the PR-items
\* effect runs on the new render.
PrsFetched ==
    /\ RecordsFetch
    /\ last'.hint = Null
    /\ Len(passes) < MaxPasses
    /\ \E data \in DisplayPRLists :
        /\ prsData' = <<data>>
        /\ PrItemsEffect(<<data>>, newItems, "fetched")
    /\ UNCHANGED <<pc, seen, updateCandidates, removalCandidatePRs, needsFileFallback,
                   slugResults, pkgInfos, removedSeen, rtask, result>>
    /\ UNCHANGED <<updatedItems, removedItems>>
    /\ UNCHANGED <<pureVars, effectVars, toggleVars, navVars>>

\* The PR request answers 403 or 429 with no X-RateLimit-Reset header:
\* parseResponse records the limit and returns [], and the PR-items effect
\* runs on the new render.
PrsRateLimited ==
    /\ RecordsRateLimit
    /\ last'.hint = Null
    /\ Len(passes) < MaxPasses
    /\ prsData' = << <<>> >>
    /\ PrItemsEffect(<< <<>> >>, newItems, "rateLimited")
    /\ UNCHANGED <<pc, seen, updateCandidates, removalCandidatePRs, needsFileFallback,
                   slugResults, pkgInfos, removedSeen, rtask, result>>
    /\ UNCHANGED <<updatedItems, removedItems>>
    /\ UNCHANGED <<pureVars, effectVars, toggleVars, navVars>>

\* The pass at place i of those in flight resolves: setUpdatedItems and
\* setRemovedItems.
SettlePass(i) ==
    /\ i \in 1..Len(passes)
    /\ updatedItems' = passes[i].updated
    /\ removedItems' = passes[i].removed
    /\ passes' = SubSeq(passes, 1, i - 1) \o SubSeq(passes, i + 1, Len(passes))
    /\ UNCHANGED prsData
    /\ UNCHANGED <<convVars, gateVars, pureVars, effectVars, toggleVars, navVars>>

PassSettles == \E i \in 1..Len(passes) : SettlePass(i)

NextDisplay ==
    \/ HourPasses
    \/ RefreshAction
    \/ RefreshDone
    \/ NewItemsSet
    \/ PrsFetched
    \/ PrsRateLimited
    \/ PassSettles

SpecDisplay == InitDisplay /\ [][NextDisplay]_vars

\* C28: once every pass has settled, the Updated and Removed sets shown are
\* the result of the pass started last, the one on the most recent PR data
\* and New set: a pass started earlier that resolves later does not
\* overwrite it.
C28_LatestPassShown ==
    (prsData # Undefined /\ passes = <<>>) =>
        /\ updatedItems = PassResult.updated
        /\ removedItems = PassResult.removed

\* C30: a rate-limited response to the PR request records the limit, leaves
\* the stored time of the last fetch as it is, and the Updated and Removed
\* sets shown stay what they were, also when the pass it started resolves.
C30_RateLimitedFrame ==
    [][ /\ PrsRateLimited =>
            /\ storage'[LAST_FETCH_KEY] = storage[LAST_FETCH_KEY]
            /\ storage'[RATE_LIMIT_RESET_KEY] # Undefined
            /\ UNCHANGED <<updatedItems, removedItems>>
        /\ \A i \in 1..Len(passes) :
            (SettlePass(i) /\ passes[i].cause = "rateLimited") =>
                UNCHANGED <<updatedItems, removedItems>> ]_vars

====
